---- MODULE Spec2Model ----
(***************************************************************************)
(* Streaming response post-processing pipeline of the chat backend         *)
(* (backend/routers/chat.py): the /send generator of the standard route    *)
(* and of the document-chat route, with the inline-reasoning classifier,   *)
(* the citation collector and the final persistence step.                  *)
(*                                                                         *)
(* Further specifications over the same variables: SpecSendMessage (the    *)
(* whole /send handler, with its request stage and non-streaming mode),    *)
(* SpecTts (the /speak-stream sentence splitter of backend/routers/tts.py),*)
(* SpecConcurrent (two generators interleaved), SpecClassifier (the        *)
(* generator fed with deltas around the closing marker), SpecRequest (the  *)
(* handler over every request body), SpecHistory (the limit on the         *)
(* conversation history) and SpecFootnotes (the footnote extractor over    *)
(* the residual buffer).                                                   *)
(*                                                                         *)
(* Text is a sequence of one-character strings, so that splitting,         *)
(* stripping, joining and pattern search are computed as the code          *)
(* computes them.                                                          *)
(***************************************************************************)
EXTENDS Naturals, Integers, Sequences, FiniteSets, TLC

-----------------------------------------------------------------------------
(* Text helpers: Python str operations used by the generator.              *)

LowerLetters == <<"a","b","c","d","e","f","g","h","i","j","k","l","m","n","o","p","q","r","s","t","u","v","w","x","y","z">>

UpperLetters == <<"A","B","C","D","E","F","G","H","I","J","K","L","M","N","O","P","Q","R","S","T","U","V","W","X","Y","Z">>

Digits == <<"0","1","2","3","4","5","6","7","8","9">>

Range(s) == {s[i] : i \in 1..Len(s)}

LowerOf == [c \in Range(UpperLetters) |->
               LowerLetters[CHOOSE i \in 1..26 : UpperLetters[i] = c]]

UpperSet == Range(UpperLetters)

\* re.IGNORECASE: a character compares equal to its other-case form.
Lower(c) == IF c \in UpperSet THEN LowerOf[c] ELSE c

\* str.lower()
LowerText(s) == [i \in 1..Len(s) |-> Lower(s[i])]

\* s has p at position i, compared exactly.
MatchAt(s, i, p) ==
    /\ i >= 1
    /\ i + Len(p) - 1 <= Len(s)
    /\ \A j \in 1..Len(p) : s[i + j - 1] = p[j]

\* `p in s`
Contains(s, p) == \E i \in 1..Len(s) : MatchAt(s, i, p)

\* Index of the first occurrence of p in s (0 if none): str.find + 1.
Find(s, p) ==
    IF Contains(s, p)
    THEN CHOOSE i \in 1..Len(s) :
            /\ MatchAt(s, i, p)
            /\ \A k \in 1..(i - 1) : ~MatchAt(s, k, p)
    ELSE 0

\* ''.join(parts)
RECURSIVE Join(_)
Join(parts) ==
    IF parts = <<>> THEN <<>> ELSE Head(parts) \o Join(Tail(parts))

\* str.lstrip('\n')
RECURSIVE LStripNewlines(_)
LStripNewlines(s) ==
    IF s # <<>> /\ Head(s) = "\n" THEN LStripNewlines(Tail(s)) ELSE s

Whitespace == {" ", "\n", "\t", "\r"}

RECURSIVE LStrip(_)
LStrip(s) ==
    IF s # <<>> /\ Head(s) \in Whitespace THEN LStrip(Tail(s)) ELSE s

RECURSIVE RStrip(_)
RStrip(s) ==
    IF s # <<>> /\ s[Len(s)] \in Whitespace
    THEN RStrip(SubSeq(s, 1, Len(s) - 1))
    ELSE s

\* str.strip()
Strip(s) == RStrip(LStrip(s))

THINK_OPEN == <<"<","t","h","i","n","k",">">>

THINK_CLOSE == <<"<","/","t","h","i","n","k",">">>

\* SplitAtMarker that splits at the last marker of the delta.
SplitAtMarker_AtLast(delta) ==
    LET i == CHOOSE i \in 1..Len(delta) :
                 /\ MatchAt(delta, i, THINK_CLOSE)
                 /\ \A k \in (i + 1)..Len(delta) : ~MatchAt(delta, k, THINK_CLOSE)
    IN  <<SubSeq(delta, 1, i - 1), SubSeq(delta, i + Len(THINK_CLOSE), Len(delta))>>

\* delta.split('</think>', 1): the text before and after the first marker.
SplitAtMarker(delta) ==
    LET i == Find(delta, THINK_CLOSE)
    IN  <<SubSeq(delta, 1, i - 1), SubSeq(delta, i + Len(THINK_CLOSE), Len(delta))>>

\* re.sub(r'</?think>', '', s): every tag occurrence removed, left to right.
RECURSIVE StripThinkTags(_)
StripThinkTags(s) ==
    LET IsTagAt(i) == MatchAt(s, i, THINK_CLOSE) \/ MatchAt(s, i, THINK_OPEN)
    IN  IF \E i \in 1..Len(s) : IsTagAt(i)
        THEN LET i == CHOOSE i \in 1..Len(s) :
                        IsTagAt(i) /\ \A k \in 1..(i - 1) : ~IsTagAt(k)
                 n == IF MatchAt(s, i, THINK_CLOSE) THEN Len(THINK_CLOSE) ELSE Len(THINK_OPEN)
             IN  SubSeq(s, 1, i - 1) \o StripThinkTags(SubSeq(s, i + n, Len(s)))
        ELSE s

-----------------------------------------------------------------------------
(* Pre-compiled patterns of the inline classifier.                         *)

\* The literal alternatives of _INLINE_REASONING_PATTERNS, lower-cased.
INLINE_REASONING_LITERALS == {
    <<"m","a","p","p","i","n","g"," ","q","u","e","r","y"," ","i","n","t","e","n","t">>,
    <<"f","i","l","t","e","r","i","n","g"," ","t","o"," ","t","h","e"," ","h","i","g","h","e","s","t","-","v","a","l","u","e">>,
    <<"s","t","r","u","c","t","u","r","i","n","g"," ","s","e","l","e","c","t","e","d"," ","c","o","n","t","e","n","t">>,
    <<"a","n","s","w","e","r"," ","s","y","n","t","h","e","s","i","s">>,
    <<"e","s","t","a","b","l","i","s","h","i","n","g"," ","a"," ","w","o","r","k","i","n","g"," ","m","o","d","e","l">>,
    <<"d","e","c","o","m","p","o","s","i","n","g"," ","t","h","e"," ","q","u","e","s","t","i","o","n">>,
    <<"t","a","r","g","e","t","e","d"," ","s","u","b","-","q","u","e","r","i","e","s">>,
    <<"c","o","n","s","o","l","i","d","a","t","i","n","g"," ","r","e","s","u","l","t","s">>,
    <<"s","t","a","g","i","n","g"," ","k","e","y"," ","e","x","c","e","r","p","t","s">>,
    <<"f","o","r"," ","i","n","s","p","e","c","t","i","o","n">>,
    <<"s","a","l","i","e","n","t"," ","p","o","i","n","t","s">>,
    <<"f","o","r"," ","r","e","t","r","i","e","v","a","l"," ","q","u","e","r","y">>,
    <<"l","e","t"," ","m","e"," ","p","u","l","l"," ","t","o","g","e","t","h","e","r">> }

SEARCHING_PREFIX == <<"s","e","a","r","c","h","i","n","g"," ">>

\* The first characters of the alternatives.
INLINE_REASONING_FIRST ==
    {p[1] : p \in INLINE_REASONING_LITERALS} \cup {SEARCHING_PREFIX[1]}

ELLIPSIS == <<".",".",".">>

\* The class [a-zA-Z0-9\-].
SourceNameChar(c) == Lower(c) \in Range(LowerLetters) \cup Range(Digits) \cup {"-"}

\* r'Searching [a-zA-Z0-9\-]+\.\.\.' somewhere in s.
SearchingSourceMatch(s) ==
    \E i \in {j \in 1..Len(s) : Lower(s[j]) = SEARCHING_PREFIX[1]} :
        /\ Len(s) >= i + Len(SEARCHING_PREFIX) - 1
        /\ MatchAt(LowerText(SubSeq(s, i, i + Len(SEARCHING_PREFIX) - 1)), 1, SEARCHING_PREFIX)
        /\ \E n \in 1..Len(s) :
              /\ \A k \in 0..(n - 1) :
                    /\ i + Len(SEARCHING_PREFIX) + k <= Len(s)
                    /\ SourceNameChar(s[i + Len(SEARCHING_PREFIX) + k])
              /\ MatchAt(s, i + Len(SEARCHING_PREFIX) + n, ELLIPSIS)

\* _INLINE_REASONING_REGEX.search(s)
InlineReasoningSearch(s) ==
    LET lowered == LowerText(s)
        \* where an alternative can start: at one of their first characters
        starts == {i \in 1..Len(s) : lowered[i] \in INLINE_REASONING_FIRST}
    IN  \/ \E i \in starts : \E p \in INLINE_REASONING_LITERALS : MatchAt(lowered, i, p)
        \/ SearchingSourceMatch(s)

\* The literal alternatives of _REAL_CONTENT_PATTERNS, lower-cased; each is
\* anchored with ^ and the pattern is compiled without re.MULTILINE.
REAL_CONTENT_LITERALS == {
    <<"g","r","e","a","t"," ","q","u","e","s","t","i","o","n">>,
    <<"h","e","r","e"," ","a","r","e">>,
    <<"b","a","s","e","d"," ","o","n">>,
    <<"t","h","e"," ","k","e","y">>,
    <<"t","h","e"," ","m","a","i","n">>,
    <<"t","h","e"," ","p","r","i","m","a","r","y">>,
    <<"t","h","e"," ","t","o","p">>,
    <<"i","'","m"," ","h","a","p","p","y"," ","t","o">>,
    <<"t","h","a","n","k"," ","y","o","u"," ","f","o","r">>,
    <<"l","e","t"," ","m","e"," ","s","h","a","r","e">>,
    <<"h","e","r","e","'","s"," ","w","h","a","t">> }

\* r'^\*\*[A-Z]' under re.IGNORECASE.
BoldHeaderStart(s) ==
    /\ Len(s) >= 3
    /\ s[1] = "*"
    /\ s[2] = "*"
    /\ Lower(s[3]) \in Range(LowerLetters)

\* _REAL_CONTENT_REGEX.search(s): ^ matches at the start of the string only.
RealContentSearch(s) ==
    \/ \E p \in REAL_CONTENT_LITERALS :
          Len(s) >= Len(p) /\ \A j \in 1..Len(p) : Lower(s[j]) = p[j]
    \/ BoldHeaderStart(s)

-----------------------------------------------------------------------------
(* Inputs: the upstream events one request can receive.                    *)

\* Most upstream events one stream delivers before it ends or raises.
MaxEvents == 3

\* The classifier's fail-open length threshold (len(text_buffer) > 500).
FLUSH_THRESHOLD == 500

\* n characters of text that matches no signature.
Filler(n) == [i \in 1..n |-> "x"]

D_Establishing == <<"E","s","t","a","b","l","i","s","h","i","n","g"," ","a"," ","w","o","r","k","i","n","g"," ","m","o","d","e","l">>

D_HereAre == <<"H","e","r","e"," ","a","r","e"," ","t","h","e"," ","r","e","s","u","l","t","s",":"," ">>

D_42 == <<"4","2",".">>

D_StepBMarkerAnswer == <<"<","t","h","i","n","k",">","S","t","e","p"," ","B","<","/","t","h","i","n","k",">","\n","\n","A","n","s","w","e","r">>

D_Bracket == <<"[","1","]"," ">>

D_StepA == <<"S","t","e","p"," ","A">>

\* chunk.delta of the ResponseTextDeltaEvent chunks (never empty: an empty
\* delta is skipped by the `and chunk.delta` test).
TextDeltas ==
    { D_Establishing, D_HereAre, D_42, D_StepBMarkerAnswer,
      D_Bracket, Filler(300), Filler(200) }

\* chunk.delta of the reasoning-summary chunks.
ReasoningDeltas == { D_StepA }

NoUrl == "none"

\* chunk.annotation (a dict) with chunk.content_index.
Annotations ==
    { [title |-> "T1", url |-> "U1", content_index |-> 0],
      [title |-> "T2", url |-> "U1", content_index |-> 1],
      [title |-> "T1", url |-> "U2", content_index |-> 1],
      [title |-> "T3", url |-> NoUrl, content_index |-> 1] }

\* str(e) of the exceptions that can be raised.
UPSTREAM_ERROR == <<"u","p","s","t","r","e","a","m">>

DB_ERROR == <<"d","b">>

\* str(e) when the call that opens the upstream response raises.
CREATE_ERROR == <<"c","r","e","a","t","e">>

-----------------------------------------------------------------------------
(* State of one /send streaming response.                                  *)

\* str(n) of a natural number: its decimal digits.
RECURSIVE Str(_)
Str(n) == IF n < 10 THEN <<Digits[n + 1]>> ELSE Str(n \div 10) \o <<Digits[(n % 10) + 1]>>

\* DeduplicateCitations without the test that the url is set.
RECURSIVE DeduplicateCitations_KeepUrlless(_)
DeduplicateCitations_KeepUrlless(raw) ==
    IF raw = <<>> THEN <<>>
    ELSE LET unique_citations == DeduplicateCitations_KeepUrlless(SubSeq(raw, 1, Len(raw) - 1))
             seen_urls == {unique_citations[k].url : k \in 1..Len(unique_citations)}
             c == raw[Len(raw)]
         IN  IF c.url \notin seen_urls
             THEN Append(unique_citations,
                      [id |-> Str(Len(unique_citations) + 1), content_index |-> c.content_index,
                       title |-> c.title, url |-> c.url])
             ELSE unique_citations

\* "Deduplicate citations by URL": the pass over a collected list of raw
\* citations [content_index, title, url], first occurrence of a url wins.
RECURSIVE DeduplicateCitations(_)
DeduplicateCitations(raw) ==
    IF raw = <<>> THEN <<>>
    ELSE LET unique_citations == DeduplicateCitations(SubSeq(raw, 1, Len(raw) - 1))
             seen_urls == {unique_citations[k].url : k \in 1..Len(unique_citations)}
             c == raw[Len(raw)]
         IN  IF c.url # NoUrl /\ c.url \notin seen_urls
             THEN Append(unique_citations,
                      [id |-> Str(Len(unique_citations) + 1), content_index |-> c.content_index,
                       title |-> c.title, url |-> c.url])
             ELSE unique_citations

VARIABLES
    route,                  \* "standard" | "document" (has_documents)
    pc,                     \* position of the generator
    consumed,               \* upstream events the generator has received
    events,                 \* SSE frames yielded so far
    in_inline_reasoning,    \* classifier state: TRUE = InReasoning
    text_buffer_parts,      \* pending buffer
    reasoning_parts,        \* event-tagged reasoning
    inline_reasoning_parts, \* inline-detected reasoning
    output_parts,           \* answer text streamed as content
    full_response_parts,    \* same, kept by both routes
    citations,              \* recorded citations, in order
    seen_citation_urls,     \* dedup set
    current_content_index,  \* last content_index seen on a text delta
    save_calls,             \* save_message(role="assistant") calls, in order
    returned,               \* what the route handler has returned to the framework
    raw_text,               \* /speak-stream: the text of the request
    sentence_buffer,        \* /speak-stream: cleaned text not yet sent to TTS
    dispatched,             \* /speak-stream: deepgram_stream_tts calls, in order
    suspended,              \* the locals of a second /send generator, not running now
    request,                \* the body of the /send request: message and thread_id
    handler_calls           \* calls made for the request to the database, the document
                            \* service and the upstream model, in order

vars == <<route, pc, consumed, events, in_inline_reasoning, text_buffer_parts,
          reasoning_parts, inline_reasoning_parts, output_parts,
          full_response_parts, citations, seen_citation_urls,
          current_content_index, save_calls, returned,
          raw_text, sentence_buffer, dispatched, suspended, request,
          handler_calls>>

speech == <<raw_text, sentence_buffer, dispatched>>

handler == <<request, handler_calls>>

classifier == <<in_inline_reasoning, text_buffer_parts, reasoning_parts,
                inline_reasoning_parts, output_parts, full_response_parts>>

collector == <<citations, seen_citation_urls, current_content_index>>

\* One SSE frame `data: {json}\n\n`, by the key of its JSON object.
Event(type, text, cits, id) ==
    [type |-> type, text |-> text, citations |-> cits, id |-> id]

Metadata == Event("metadata", <<>>, <<>>, 0)

Content(text) == Event("content", text, <<>>, 0)

Reasoning(wrapped) == Event("reasoning", wrapped, <<>>, 0)

Citations(cits) == Event("citations", <<>>, cits, 0)

AssistantMessageId(id) == Event("assistant_message_id", <<>>, <<>>, id)

Done == Event("done", <<>>, <<>>, 0)

Error(msg) == Event("error", msg, <<>>, 0)

\* The id save_message returns: the user's message holds id 1.
NewMessageId == Len(SelectSeq(save_calls, LAMBDA c : c.ok)) + 2

\* The values a route handler returns: a StreamingResponse around the
\* generator, or a JSON object (dict); NotReturned while it is still running.
NotReturned ==
    [kind |-> "none", status |-> "", response |-> <<>>, citations |-> <<>>,
     assistant_message_id |-> 0]

StreamingResponse ==
    [kind |-> "stream", status |-> "", response |-> <<>>, citations |-> <<>>,
     assistant_message_id |-> 0]

\* The locals of a generator that has been created and has not run yet.
FreshLocals ==
    [pc |-> "start", consumed |-> <<>>, events |-> <<>>,
     in_inline_reasoning |-> TRUE, text_buffer_parts |-> <<>>,
     reasoning_parts |-> <<>>, inline_reasoning_parts |-> <<>>,
     output_parts |-> <<>>, full_response_parts |-> <<>>,
     citations |-> <<>>, seen_citation_urls |-> {}, current_content_index |-> 0]

\* message.get("message", ""): empty, blank, or a text.
MessageTexts == { <<>>, <<" ", "\n">>, D_42 }

\* message.get("thread_id"): absent (None), empty, or the id of a thread.
ThreadIds == { "None", "", "T1" }

Requests == [message : MessageTexts, thread_id : ThreadIds]

\* `message_text = message.get("message", "").strip()` is not empty.
Accepted(r) == Strip(r.message) # <<>>

\* The calls the handler and the generators make, by name.
CREATE_THREAD == "create_thread"

THREAD_HAS_DOCUMENTS == "thread_has_documents"

SAVE_USER_MESSAGE == "save_message:user"

RESPONSES_CREATE == "responses.create"

STREAM_CLAUDE == "stream_claude_with_documents"

\* HandlerPrelude that leaves the user's message of a document thread to
\* the standard route.
HandlerPrelude_DocNotSaved(r) ==
    (IF r.thread_id \in {"None", ""} THEN <<CREATE_THREAD>> ELSE <<>>)
    \o <<THREAD_HAS_DOCUMENTS>>
    \o (IF r.thread_id = "T1" THEN <<>> ELSE <<SAVE_USER_MESSAGE>>)

\* What send_message does for an accepted request before it turns to the
\* model: "Create new thread if not provided", "Check if thread has
\* documents", and "Save user message", which is the first statement of
\* _handle_document_chat too.
HandlerPrelude(r) ==
    (IF r.thread_id \in {"None", ""} THEN <<CREATE_THREAD>> ELSE <<>>)
    \o <<THREAD_HAS_DOCUMENTS, SAVE_USER_MESSAGE>>

\* The document generator calls stream_claude_with_documents when its loop
\* starts, after the metadata frame.
WithUpstreamCall(made) ==
    IF STREAM_CLAUDE \in Range(made) THEN made ELSE Append(made, STREAM_CLAUDE)

\* The request of the streams looked at on their own.
StreamRequest == [message |-> D_42, thread_id |-> "T1"]

\* State after the handler has returned StreamingResponse(generate_stream()):
\* the generator has not run yet.
Init ==
    /\ returned = StreamingResponse
    /\ suspended = FreshLocals
    /\ raw_text = <<>>
    /\ sentence_buffer = <<>>
    /\ dispatched = <<>>
    /\ route \in {"standard", "document"}
    /\ pc = "start"
    /\ consumed = <<>>
    /\ events = <<>>
    /\ in_inline_reasoning = TRUE
    /\ text_buffer_parts = <<>>
    /\ reasoning_parts = <<>>
    /\ inline_reasoning_parts = <<>>
    /\ output_parts = <<>>
    /\ full_response_parts = <<>>
    /\ citations = <<>>
    /\ seen_citation_urls = {}
    /\ current_content_index = 0
    /\ save_calls = <<>>
    /\ request = StreamRequest
    /\ handler_calls = HandlerPrelude(StreamRequest)
                       \o (IF route = "standard" THEN <<RESPONSES_CREATE>> ELSE <<>>)

-----------------------------------------------------------------------------
(* Standard route: send_message.generate_stream.                           *)

NoAnnotation == [title |-> "", url |-> NoUrl, content_index |-> 0]

\* One chunk of the upstream response, by the kind its type name selects.
UpstreamEvent(kind, delta, ann) == [kind |-> kind, delta |-> delta, ann |-> ann]

\* Start without the metadata frame.
Start_NoMetadata ==
    /\ route = "standard"
    /\ pc = "start"
    /\ pc' = "streaming"
    /\ UNCHANGED <<handler, suspended, route, returned, speech, consumed, events, classifier, collector, save_calls>>

\* "Send metadata first": the first yield, before the loop over the response.
Start ==
    /\ route = "standard"
    /\ pc = "start"
    /\ events' = Append(events, Metadata)
    /\ pc' = "streaming"
    /\ UNCHANGED <<handler, suspended, route, returned, speech, consumed, classifier, collector, save_calls>>

\* OnReasoningDelta that takes the delta for inline narration while the
\* classifier is InReasoning.
OnReasoningDelta_InlineWhenReasoning(delta) ==
    /\ route = "standard"
    /\ pc = "streaming"
    /\ Len(consumed) < MaxEvents
    /\ consumed' = Append(consumed, UpstreamEvent("reasoning", delta, NoAnnotation))
    /\ IF in_inline_reasoning
       THEN /\ text_buffer_parts' = Append(text_buffer_parts, delta)
            /\ inline_reasoning_parts' = Append(inline_reasoning_parts, delta)
            /\ UNCHANGED reasoning_parts
       ELSE /\ reasoning_parts' = Append(reasoning_parts, delta)
            /\ UNCHANGED <<text_buffer_parts, inline_reasoning_parts>>
    /\ UNCHANGED <<handler, suspended, route, returned, speech, pc, events, in_inline_reasoning,
                   output_parts, full_response_parts, collector, save_calls>>

\* A chunk whose type name contains 'Reasoning': appended to reasoning_parts.
OnReasoningDelta(delta) ==
    /\ route = "standard"
    /\ pc = "streaming"
    /\ Len(consumed) < MaxEvents
    /\ consumed' = Append(consumed, UpstreamEvent("reasoning", delta, NoAnnotation))
    /\ reasoning_parts' = Append(reasoning_parts, delta)
    /\ UNCHANGED <<handler, suspended, route, returned, speech, pc, events, in_inline_reasoning, text_buffer_parts,
                   inline_reasoning_parts, output_parts, full_response_parts,
                   collector, save_calls>>

\* BufferVerdict without the length threshold: an undecided buffer stays pending.
BufferVerdict_NoThreshold(text_buffer) ==
    IF RealContentSearch(text_buffer) THEN "content"
    ELSE IF InlineReasoningSearch(text_buffer) \/ MatchAt(text_buffer, 1, <<"[">>)
         THEN "reasoning"
    ELSE "pending"

\* The classifier's step on a delta without the marker while InReasoning:
\* what the pending buffer is checked against, in the order of the code.
BufferVerdict(text_buffer) ==
    IF RealContentSearch(text_buffer) THEN "content"
    ELSE IF InlineReasoningSearch(text_buffer) \/ MatchAt(text_buffer, 1, <<"[">>)
         THEN "reasoning"
    ELSE IF Len(text_buffer) > FLUSH_THRESHOLD THEN "flush"
    ELSE "pending"

\* OnTextDelta that, InContent, merges a delta into the Content event sent
\* just before it.
OnTextDelta_MergeContent(delta) ==
    /\ route = "standard"
    /\ pc = "streaming"
    /\ Len(consumed) < MaxEvents
    /\ consumed' = Append(consumed, UpstreamEvent("text", delta, NoAnnotation))
    /\ IF Contains(delta, THINK_CLOSE)
       THEN \* split at the marker; `continue` skips the content_index update
            LET parts == SplitAtMarker(delta)
                remaining == LStripNewlines(parts[2])
            IN  /\ inline_reasoning_parts' = Append(inline_reasoning_parts, parts[1])
                /\ in_inline_reasoning' = FALSE
                /\ IF remaining # <<>>
                   THEN /\ output_parts' = Append(output_parts, remaining)
                        /\ full_response_parts' = Append(full_response_parts, remaining)
                        /\ events' = Append(events, Content(remaining))
                   ELSE UNCHANGED <<output_parts, full_response_parts, events>>
                /\ UNCHANGED <<text_buffer_parts, current_content_index>>
       ELSE /\ IF in_inline_reasoning
               THEN LET text_buffer == Join(Append(text_buffer_parts, delta))
                        verdict == BufferVerdict(text_buffer)
                    IN  CASE verdict \in {"content", "flush"} ->
                               /\ in_inline_reasoning' = FALSE
                               /\ output_parts' = Append(output_parts, text_buffer)
                               /\ full_response_parts' = Append(full_response_parts, text_buffer)
                               /\ events' = Append(events, Content(text_buffer))
                               /\ text_buffer_parts' = <<>>
                               /\ UNCHANGED inline_reasoning_parts
                          [] verdict = "reasoning" ->
                               /\ text_buffer_parts' = Append(text_buffer_parts, delta)
                               /\ inline_reasoning_parts' = Append(inline_reasoning_parts, delta)
                               /\ UNCHANGED <<in_inline_reasoning, output_parts,
                                              full_response_parts, events>>
                          [] OTHER ->
                               /\ text_buffer_parts' = Append(text_buffer_parts, delta)
                               /\ UNCHANGED <<in_inline_reasoning, inline_reasoning_parts,
                                              output_parts, full_response_parts, events>>
               ELSE /\ output_parts' = Append(output_parts, delta)
                    /\ full_response_parts' = Append(full_response_parts, delta)
                    /\ events' = IF events[Len(events)].type = "content"
                                 THEN [events EXCEPT ![Len(events)].text = @ \o delta]
                                 ELSE Append(events, Content(delta))
                    /\ UNCHANGED <<in_inline_reasoning, text_buffer_parts,
                                   inline_reasoning_parts>>
            /\ current_content_index' = 0
    /\ UNCHANGED <<handler, suspended, route, returned, speech, pc, reasoning_parts, citations, seen_citation_urls, save_calls>>

\* OnTextDelta that goes back to buffering when a delta that looks like
\* narration arrives after the content has started.
OnTextDelta_ReentersReasoning(delta) ==
    /\ route = "standard"
    /\ pc = "streaming"
    /\ Len(consumed) < MaxEvents
    /\ consumed' = Append(consumed, UpstreamEvent("text", delta, NoAnnotation))
    /\ IF Contains(delta, THINK_CLOSE)
       THEN \* split at the marker; `continue` skips the content_index update
            LET parts == SplitAtMarker(delta)
                remaining == LStripNewlines(parts[2])
            IN  /\ inline_reasoning_parts' = Append(inline_reasoning_parts, parts[1])
                /\ in_inline_reasoning' = FALSE
                /\ IF remaining # <<>>
                   THEN /\ output_parts' = Append(output_parts, remaining)
                        /\ full_response_parts' = Append(full_response_parts, remaining)
                        /\ events' = Append(events, Content(remaining))
                   ELSE UNCHANGED <<output_parts, full_response_parts, events>>
                /\ UNCHANGED <<text_buffer_parts, current_content_index>>
       ELSE /\ IF in_inline_reasoning
               THEN LET text_buffer == Join(Append(text_buffer_parts, delta))
                        verdict == BufferVerdict(text_buffer)
                    IN  CASE verdict \in {"content", "flush"} ->
                               /\ in_inline_reasoning' = FALSE
                               /\ output_parts' = Append(output_parts, text_buffer)
                               /\ full_response_parts' = Append(full_response_parts, text_buffer)
                               /\ events' = Append(events, Content(text_buffer))
                               /\ text_buffer_parts' = <<>>
                               /\ UNCHANGED inline_reasoning_parts
                          [] verdict = "reasoning" ->
                               /\ text_buffer_parts' = Append(text_buffer_parts, delta)
                               /\ inline_reasoning_parts' = Append(inline_reasoning_parts, delta)
                               /\ UNCHANGED <<in_inline_reasoning, output_parts,
                                              full_response_parts, events>>
                          [] OTHER ->
                               /\ text_buffer_parts' = Append(text_buffer_parts, delta)
                               /\ UNCHANGED <<in_inline_reasoning, inline_reasoning_parts,
                                              output_parts, full_response_parts, events>>
               ELSE IF BufferVerdict(delta) = "reasoning"
                    THEN /\ in_inline_reasoning' = TRUE
                         /\ text_buffer_parts' = Append(text_buffer_parts, delta)
                         /\ inline_reasoning_parts' = Append(inline_reasoning_parts, delta)
                         /\ UNCHANGED <<output_parts, full_response_parts, events>>
                    ELSE /\ output_parts' = Append(output_parts, delta)
                         /\ full_response_parts' = Append(full_response_parts, delta)
                         /\ events' = Append(events, Content(delta))
                         /\ UNCHANGED <<in_inline_reasoning, text_buffer_parts,
                                        inline_reasoning_parts>>
            /\ current_content_index' = 0
    /\ UNCHANGED <<handler, suspended, route, returned, speech, pc, reasoning_parts, citations, seen_citation_urls, save_calls>>

\* A ResponseTextDeltaEvent chunk.
OnTextDelta(delta) ==
    /\ route = "standard"
    /\ pc = "streaming"
    /\ Len(consumed) < MaxEvents
    /\ consumed' = Append(consumed, UpstreamEvent("text", delta, NoAnnotation))
    /\ IF Contains(delta, THINK_CLOSE)
       THEN \* split at the marker; `continue` skips the content_index update
            LET parts == SplitAtMarker(delta)
                remaining == LStripNewlines(parts[2])
            IN  /\ inline_reasoning_parts' = Append(inline_reasoning_parts, parts[1])
                /\ in_inline_reasoning' = FALSE
                /\ IF remaining # <<>>
                   THEN /\ output_parts' = Append(output_parts, remaining)
                        /\ full_response_parts' = Append(full_response_parts, remaining)
                        /\ events' = Append(events, Content(remaining))
                   ELSE UNCHANGED <<output_parts, full_response_parts, events>>
                /\ UNCHANGED <<text_buffer_parts, current_content_index>>
       ELSE /\ IF in_inline_reasoning
               THEN LET text_buffer == Join(Append(text_buffer_parts, delta))
                        verdict == BufferVerdict(text_buffer)
                    IN  CASE verdict \in {"content", "flush"} ->
                               /\ in_inline_reasoning' = FALSE
                               /\ output_parts' = Append(output_parts, text_buffer)
                               /\ full_response_parts' = Append(full_response_parts, text_buffer)
                               /\ events' = Append(events, Content(text_buffer))
                               /\ text_buffer_parts' = <<>>
                               /\ UNCHANGED inline_reasoning_parts
                          [] verdict = "reasoning" ->
                               /\ text_buffer_parts' = Append(text_buffer_parts, delta)
                               /\ inline_reasoning_parts' = Append(inline_reasoning_parts, delta)
                               /\ UNCHANGED <<in_inline_reasoning, output_parts,
                                              full_response_parts, events>>
                          [] OTHER ->
                               /\ text_buffer_parts' = Append(text_buffer_parts, delta)
                               /\ UNCHANGED <<in_inline_reasoning, inline_reasoning_parts,
                                              output_parts, full_response_parts, events>>
               ELSE /\ output_parts' = Append(output_parts, delta)
                    /\ full_response_parts' = Append(full_response_parts, delta)
                    /\ events' = Append(events, Content(delta))
                    /\ UNCHANGED <<in_inline_reasoning, text_buffer_parts,
                                   inline_reasoning_parts>>
            /\ current_content_index' = 0
    /\ UNCHANGED <<handler, suspended, route, returned, speech, pc, reasoning_parts, citations, seen_citation_urls, save_calls>>

\* OnAnnotation that sends the list so far whenever a citation is recorded.
OnAnnotation_EmitEach(ann) ==
    /\ route = "standard"
    /\ pc = "streaming"
    /\ Len(consumed) < MaxEvents
    /\ consumed' = Append(consumed, UpstreamEvent("annotation", <<>>, ann))
    /\ IF ann.url # NoUrl /\ ann.url \notin seen_citation_urls
       THEN /\ seen_citation_urls' = seen_citation_urls \cup {ann.url}
            /\ citations' = Append(citations,
                   [id |-> Str(Len(citations) + 1), content_index |-> ann.content_index,
                    title |-> ann.title, url |-> ann.url])
            /\ events' = Append(events, Citations(citations'))
       ELSE UNCHANGED <<citations, seen_citation_urls, events>>
    /\ UNCHANGED <<handler, suspended, route, returned, speech, pc, classifier, current_content_index, save_calls>>

\* OnAnnotation that numbers a citation by the annotations received.
OnAnnotation_IdFromArrival(ann) ==
    /\ route = "standard"
    /\ pc = "streaming"
    /\ Len(consumed) < MaxEvents
    /\ consumed' = Append(consumed, UpstreamEvent("annotation", <<>>, ann))
    /\ IF ann.url # NoUrl /\ ann.url \notin seen_citation_urls
       THEN /\ seen_citation_urls' = seen_citation_urls \cup {ann.url}
            /\ citations' = Append(citations,
                   [id |-> Str(Len(SelectSeq(consumed', LAMBDA e : e.kind = "annotation"))),
                    content_index |-> ann.content_index,
                    title |-> ann.title, url |-> ann.url])
       ELSE UNCHANGED <<citations, seen_citation_urls>>
    /\ UNCHANGED <<handler, suspended, route, returned, speech, pc, events, classifier, current_content_index, save_calls>>

\* OnAnnotation that gives a recorded url the title of its latest annotation.
OnAnnotation_LastTitleWins(ann) ==
    /\ route = "standard"
    /\ pc = "streaming"
    /\ Len(consumed) < MaxEvents
    /\ consumed' = Append(consumed, UpstreamEvent("annotation", <<>>, ann))
    /\ IF ann.url # NoUrl /\ ann.url \notin seen_citation_urls
       THEN /\ seen_citation_urls' = seen_citation_urls \cup {ann.url}
            /\ citations' = Append(citations,
                   [id |-> Str(Len(citations) + 1), content_index |-> ann.content_index,
                    title |-> ann.title, url |-> ann.url])
       ELSE /\ citations' = [k \in 1..Len(citations) |->
                                IF citations[k].url = ann.url
                                THEN [citations[k] EXCEPT !.title = ann.title]
                                ELSE citations[k]]
            /\ UNCHANGED seen_citation_urls
    /\ UNCHANGED <<handler, suspended, route, returned, speech, pc, events, classifier, current_content_index, save_calls>>

\* OnAnnotation whose seen-set holds (title, url) pairs instead of urls.
OnAnnotation_DedupByPair(ann) ==
    /\ route = "standard"
    /\ pc = "streaming"
    /\ Len(consumed) < MaxEvents
    /\ consumed' = Append(consumed, UpstreamEvent("annotation", <<>>, ann))
    /\ IF /\ ann.url # NoUrl
          /\ ~\E k \in 1..Len(citations) :
                 citations[k].url = ann.url /\ citations[k].title = ann.title
       THEN /\ seen_citation_urls' = seen_citation_urls \cup {ann.url}
            /\ citations' = Append(citations,
                   [id |-> Str(Len(citations) + 1), content_index |-> ann.content_index,
                    title |-> ann.title, url |-> ann.url])
       ELSE UNCHANGED <<citations, seen_citation_urls>>
    /\ UNCHANGED <<handler, suspended, route, returned, speech, pc, events, classifier, current_content_index, save_calls>>

\* A chunk whose type name contains 'Annotation': dedup during collection.
OnAnnotation(ann) ==
    /\ route = "standard"
    /\ pc = "streaming"
    /\ Len(consumed) < MaxEvents
    /\ consumed' = Append(consumed, UpstreamEvent("annotation", <<>>, ann))
    /\ IF ann.url # NoUrl /\ ann.url \notin seen_citation_urls
       THEN /\ seen_citation_urls' = seen_citation_urls \cup {ann.url}
            /\ citations' = Append(citations,
                   [id |-> Str(Len(citations) + 1), content_index |-> ann.content_index,
                    title |-> ann.title, url |-> ann.url])
       ELSE UNCHANGED <<citations, seen_citation_urls>>
    /\ UNCHANGED <<handler, suspended, route, returned, speech, pc, events, classifier, current_content_index, save_calls>>

\* UpstreamRaises with the handler inside the loop: the error frame is
\* yielded and the generator goes on to finish the response.
UpstreamRaises_ThenFinish ==
    /\ route = "standard"
    /\ pc = "streaming"
    /\ events' = Append(events, Error(UPSTREAM_ERROR))
    /\ pc' = "end"
    /\ UNCHANGED <<handler, suspended, route, returned, speech, consumed, classifier, collector, save_calls>>

\* An exception raised by the iteration over the response: the outer
\* `except Exception` yields the error frame and the generator returns.
UpstreamRaises ==
    /\ route = "standard"
    /\ pc = "streaming"
    /\ events' = Append(events, Error(UPSTREAM_ERROR))
    /\ pc' = "failed"
    /\ UNCHANGED <<handler, suspended, route, returned, speech, consumed, classifier, collector, save_calls>>

\* FlushResidual that discards the pending buffer.
FlushResidual_Discard ==
    /\ route = "standard"
    /\ pc = "streaming"
    /\ pc' = "reasoning"
    /\ UNCHANGED <<handler, suspended, route, returned, speech, consumed, events, classifier, collector, save_calls>>

\* The response is exhausted: "If there's remaining buffer that never got
\* flushed, treat it as content".
FlushResidual ==
    /\ route = "standard"
    /\ pc = "streaming"
    /\ LET text_buffer == Join(text_buffer_parts)
       IN  IF text_buffer # <<>> /\ in_inline_reasoning
           THEN /\ output_parts' = Append(output_parts, text_buffer)
                /\ full_response_parts' = Append(full_response_parts, text_buffer)
                /\ events' = Append(events, Content(text_buffer))
           ELSE UNCHANGED <<output_parts, full_response_parts, events>>
    /\ pc' = "reasoning"
    /\ UNCHANGED <<handler, suspended, route, returned, speech, consumed, in_inline_reasoning, text_buffer_parts,
                   reasoning_parts, inline_reasoning_parts, collector, save_calls>>

\* AllReasoning with the two accumulators in the other order.
AllReasoning_InlineFirst(event_parts, inline_parts) == Join(inline_parts) \o Join(event_parts)

\* reasoning_content + inline_reasoning_collected
AllReasoning(event_parts, inline_parts) == Join(event_parts) \o Join(inline_parts)

\* re.sub(r'</?think>', '', all_reasoning).strip()
CleanReasoning(all_reasoning) == Strip(StripThinkTags(all_reasoning))

\* f"<think>\n{clean_reasoning}\n</think>\n\n"
WrapReasoning(clean_reasoning) ==
    THINK_OPEN \o <<"\n">> \o clean_reasoning \o <<"\n">> \o THINK_CLOSE \o <<"\n", "\n">>

\* "After streaming completes, send reasoning wrapped in <think> tags".
SendReasoning ==
    /\ route = "standard"
    /\ pc = "reasoning"
    /\ LET all_reasoning == AllReasoning(reasoning_parts, inline_reasoning_parts)
           clean_reasoning == CleanReasoning(all_reasoning)
       IN  IF Strip(all_reasoning) # <<>> /\ clean_reasoning # <<>>
           THEN events' = Append(events, Reasoning(WrapReasoning(clean_reasoning)))
           ELSE UNCHANGED events
    /\ pc' = "citations"
    /\ UNCHANGED <<handler, suspended, route, returned, speech, consumed, classifier, collector, save_calls>>

\* "Send citations if any were collected".
SendCitations ==
    /\ route = "standard"
    /\ pc = "citations"
    /\ IF citations # <<>>
       THEN events' = Append(events, Citations(citations))
       ELSE UNCHANGED events
    /\ pc' = "save"
    /\ UNCHANGED <<handler, suspended, route, returned, speech, consumed, classifier, collector, save_calls>>

\* ContentToSave that stores the answer without the reasoning block.
ContentToSave_AnswerOnly(all_reasoning, output_content) == output_content

\* content_to_save: the reasoning block, if any, then the answer.
ContentToSave(all_reasoning, output_content) ==
    IF Strip(all_reasoning) # <<>> /\ CleanReasoning(all_reasoning) # <<>>
    THEN WrapReasoning(CleanReasoning(all_reasoning)) \o output_content
    ELSE output_content

\* SaveAssistant without the `if output_content:` guard.
SaveAssistant_Unguarded(ok) ==
    /\ route = "standard"
    /\ pc = "save"
    /\ save_calls' = Append(save_calls,
           [content |-> ContentToSave(AllReasoning(reasoning_parts, inline_reasoning_parts),
                                      Join(output_parts)),
            ok |-> ok])
    /\ IF ok
       THEN events' = Append(events, AssistantMessageId(NewMessageId))
       ELSE UNCHANGED events
    /\ pc' = "end"
    /\ UNCHANGED <<handler, suspended, route, returned, speech, consumed, classifier, collector>>

\* SaveAssistant that sends the id frame before it calls save_message.
SaveAssistant_IdBeforeSave(ok) ==
    /\ route = "standard"
    /\ pc = "save"
    /\ LET output_content == Join(output_parts)
           content_to_save ==
               ContentToSave(AllReasoning(reasoning_parts, inline_reasoning_parts),
                             output_content)
       IN  IF output_content # <<>>
           THEN /\ save_calls' = Append(save_calls, [content |-> content_to_save, ok |-> ok])
                /\ events' = Append(events, AssistantMessageId(NewMessageId))
           ELSE /\ ok
                /\ UNCHANGED <<save_calls, events>>
    /\ pc' = "end"
    /\ UNCHANGED <<handler, suspended, route, returned, speech, consumed, classifier, collector>>

\* "Save assistant message to database": skipped when no answer text was
\* produced; a failure of save_message is logged by the inner except.
SaveAssistant(ok) ==
    /\ route = "standard"
    /\ pc = "save"
    /\ LET output_content == Join(output_parts)
           content_to_save ==
               ContentToSave(AllReasoning(reasoning_parts, inline_reasoning_parts),
                             output_content)
       IN  IF output_content # <<>>
           THEN /\ save_calls' = Append(save_calls, [content |-> content_to_save, ok |-> ok])
                /\ IF ok
                   THEN events' = Append(events, AssistantMessageId(NewMessageId))
                   ELSE UNCHANGED events
           ELSE /\ ok
                /\ UNCHANGED <<save_calls, events>>
    /\ pc' = "end"
    /\ UNCHANGED <<handler, suspended, route, returned, speech, consumed, classifier, collector>>

\* "Send end signal".
SendDone ==
    /\ route = "standard"
    /\ pc = "end"
    /\ events' = Append(events, Done)
    /\ pc' = "done"
    /\ UNCHANGED <<handler, suspended, route, returned, speech, consumed, classifier, collector, save_calls>>

-----------------------------------------------------------------------------
(* Document-chat route: _handle_document_chat.generate_stream.             *)

\* "Send metadata first".
DocStart ==
    /\ route = "document"
    /\ pc = "start"
    /\ events' = Append(events, Metadata)
    /\ pc' = "streaming"
    /\ UNCHANGED <<handler, suspended, route, returned, speech, consumed, classifier, collector, save_calls>>

\* One non-empty content string yielded by stream_claude_with_documents.
DocOnContent(content) ==
    /\ route = "document"
    /\ pc = "streaming"
    /\ Len(consumed) < MaxEvents
    /\ consumed' = Append(consumed, UpstreamEvent("text", content, NoAnnotation))
    /\ full_response_parts' = Append(full_response_parts, content)
    /\ events' = Append(events, Content(content))
    /\ handler_calls' = WithUpstreamCall(handler_calls)
    /\ UNCHANGED <<request, suspended, route, returned, speech, pc, in_inline_reasoning, text_buffer_parts, reasoning_parts,
                   inline_reasoning_parts, output_parts, collector, save_calls>>

\* stream_claude_with_documents runs inside the generator: when loading the
\* documents or client.chat.completions.create raises, the metadata frame
\* has been sent and the outer except yields the error frame.
DocCreateRaises ==
    /\ route = "document"
    /\ pc = "streaming"
    /\ consumed = <<>>
    /\ events' = Append(events, Error(CREATE_ERROR))
    /\ pc' = "failed"
    /\ handler_calls' = WithUpstreamCall(handler_calls)
    /\ UNCHANGED <<request, suspended, route, returned, speech, consumed, classifier, collector, save_calls>>

\* An exception out of the iteration over Claude's stream, at any chunk:
\* the only handler is the outer except.
DocUpstreamRaises ==
    /\ route = "document"
    /\ pc = "streaming"
    /\ events' = Append(events, Error(UPSTREAM_ERROR))
    /\ pc' = "failed"
    /\ handler_calls' = WithUpstreamCall(handler_calls)
    /\ UNCHANGED <<request, suspended, route, returned, speech, consumed, classifier, collector, save_calls>>

\* DocSaveAssistant whose failure is raised after the row was committed
\* and the id frame was sent.
DocSaveAssistant_RaisesAfterIdFrame(ok) ==
    /\ route = "document"
    /\ pc = "streaming"
    /\ LET full_response == Join(full_response_parts)
       IN  IF full_response # <<>>
           THEN /\ save_calls' = Append(save_calls, [content |-> full_response, ok |-> TRUE])
                /\ IF ok
                   THEN /\ events' = Append(events, AssistantMessageId(NewMessageId))
                        /\ pc' = "end"
                   ELSE /\ events' = events \o <<AssistantMessageId(NewMessageId),
                                                 Error(DB_ERROR)>>
                        /\ pc' = "failed"
           ELSE /\ ok
                /\ pc' = "end"
                /\ UNCHANGED <<save_calls, events>>
    /\ handler_calls' = WithUpstreamCall(handler_calls)
    /\ UNCHANGED <<request, suspended, route, returned, speech, consumed, classifier, collector>>

\* DocSaveAssistant whose failure handler falls through to the end signal.
DocSaveAssistant_FallThrough(ok) ==
    /\ route = "document"
    /\ pc = "streaming"
    /\ LET full_response == Join(full_response_parts)
       IN  IF full_response # <<>>
           THEN /\ save_calls' = Append(save_calls, [content |-> full_response, ok |-> ok])
                /\ IF ok
                   THEN events' = Append(events, AssistantMessageId(NewMessageId))
                   ELSE events' = Append(events, Error(DB_ERROR))
           ELSE /\ ok
                /\ UNCHANGED <<save_calls, events>>
    /\ pc' = "end"
    /\ handler_calls' = WithUpstreamCall(handler_calls)
    /\ UNCHANGED <<request, suspended, route, returned, speech, consumed, classifier, collector>>

\* "Save assistant message": no inner try, so a failure of save_message
\* reaches the outer except, which yields the error frame.
DocSaveAssistant(ok) ==
    /\ route = "document"
    /\ pc = "streaming"
    /\ LET full_response == Join(full_response_parts)
       IN  IF full_response # <<>>
           THEN /\ save_calls' = Append(save_calls, [content |-> full_response, ok |-> ok])
                /\ IF ok
                   THEN /\ events' = Append(events, AssistantMessageId(NewMessageId))
                        /\ pc' = "end"
                   ELSE /\ events' = Append(events, Error(DB_ERROR))
                        /\ pc' = "failed"
           ELSE /\ ok
                /\ pc' = "end"
                /\ UNCHANGED <<save_calls, events>>
    /\ handler_calls' = WithUpstreamCall(handler_calls)
    /\ UNCHANGED <<request, suspended, route, returned, speech, consumed, classifier, collector>>

DocSendDone ==
    /\ route = "document"
    /\ pc = "end"
    /\ events' = Append(events, Done)
    /\ pc' = "done"
    /\ UNCHANGED <<handler, suspended, route, returned, speech, consumed, classifier, collector, save_calls>>

-----------------------------------------------------------------------------

Next ==
    \/ Start
    \/ \E d \in ReasoningDeltas : OnReasoningDelta(d)
    \/ \E d \in TextDeltas : OnTextDelta(d)
    \/ \E a \in Annotations : OnAnnotation(a)
    \/ UpstreamRaises
    \/ FlushResidual
    \/ SendReasoning
    \/ SendCitations
    \/ \E ok \in BOOLEAN : SaveAssistant(ok)
    \/ SendDone
    \/ DocStart
    \/ \E c \in TextDeltas : DocOnContent(c)
    \/ DocCreateRaises
    \/ DocUpstreamRaises
    \/ \E ok \in BOOLEAN : DocSaveAssistant(ok)
    \/ DocSendDone

Spec == Init /\ [][Next]_vars

-----------------------------------------------------------------------------
(* The route handler itself: send_message and _handle_document_chat, from  *)
(* the request to the value they return.                                   *)

\* str(e) of the HTTPException raised when DATABRICKS_TOKEN is empty.
TOKEN_ERROR == <<"t","o","k","e","n">>

\* The dict returned on success.
SuccessJson(response, cits, id) ==
    [kind |-> "json", status |-> "success", response |-> response,
     citations |-> cits, assistant_message_id |-> id]

\* The dict returned by the handler's `except Exception`, which also
\* catches the HTTPExceptions raised inside the try: f"Error: {str(e)}".
ErrorJson(msg) ==
    [kind |-> "json", status |-> "error",
     response |-> <<"E","r","r","o","r",":"," ">> \o msg,
     citations |-> <<>>, assistant_message_id |-> 0]

\* content_item.text of the content items of a non-streaming response.
ItemTexts == { <<>>, D_42, D_HereAre }

\* response.output laid out in reading order: the start of an output
\* message, a content item (its text), an annotation of the last item.
OutputParts ==
    {UpstreamEvent("message", <<>>, NoAnnotation)}
    \cup {UpstreamEvent("item", t, NoAnnotation) : t \in ItemTexts}
    \cup {UpstreamEvent("annotation", <<>>, a) : a \in Annotations}

\* Most parts in the layout of one non-streaming response.
MaxParts == 5

\* The layouts that are a response object: items lie inside a message and
\* annotations inside an item.
ResponseOutputs ==
    {o \in UNION {[1..n -> OutputParts] : n \in 0..MaxParts} :
        \A i \in 1..Len(o) :
            /\ i = 1 => o[i].kind = "message"
            /\ o[i].kind = "annotation" => o[i - 1].kind \in {"item", "annotation"}}

\* full_content: the texts of all content items of all output messages.
FullContent(output) ==
    LET items == SelectSeq(output, LAMBDA e : e.kind = "item")
    IN  Join([i \in 1..Len(items) |-> items[i].delta])

\* enumerate()'s idx of the content item that holds the part at position p.
ItemIndex(output, p) ==
    LET q == CHOOSE j \in 1..p : output[j].kind = "item"
                                 /\ \A k \in (j + 1)..p : output[k].kind # "item"
        m == CHOOSE j \in 1..q : output[j].kind = "message"
                                 /\ \A k \in (j + 1)..q : output[k].kind # "message"
    IN  Cardinality({j \in (m + 1)..(q - 1) : output[j].kind = "item"})

\* citations before deduplication: one per annotation, in reading order.
RawCitations(output) ==
    LET at == SelectSeq([i \in 1..Len(output) |-> i],
                        LAMBDA i : output[i].kind = "annotation")
    IN  [k \in 1..Len(at) |->
            [content_index |-> ItemIndex(output, at[k]),
             title |-> output[at[k]].ann.title, url |-> output[at[k]].ann.url]]

\* The deployment revision's streaming loop: every annotation is appended
\* to citations as it arrives, with no test of the url.
CollectedCitations(anns) ==
    [k \in 1..Len(anns) |->
        [content_index |-> anns[k].content_index,
         title |-> anns[k].title, url |-> anns[k].url]]

\* The deployment revision's "Send citations if any were collected":
\* the pass over the collected list when the stream has ended.
DedupAtEndOfStream(anns) == DeduplicateCitations(CollectedCitations(anns))

\* `if not DATABRICKS_TOKEN: raise HTTPException(503)`.
TokenNotConfigured ==
    /\ route = "standard"
    /\ pc = "request"
    /\ Accepted(request)
    /\ returned' = ErrorJson(TOKEN_ERROR)
    /\ pc' = "returned"
    /\ handler_calls' = handler_calls \o HandlerPrelude(request)
    /\ UNCHANGED <<request, suspended, route, consumed, events, classifier, collector, save_calls, speech>>

\* client.responses.create raises: HTTPException(500).
CreateRaises ==
    /\ route = "standard"
    /\ pc = "request"
    /\ Accepted(request)
    /\ returned' = ErrorJson(CREATE_ERROR)
    /\ pc' = "returned"
    /\ handler_calls' = handler_calls \o HandlerPrelude(request) \o <<RESPONSES_CREATE>>
    /\ UNCHANGED <<request, suspended, route, consumed, events, classifier, collector, save_calls, speech>>

\* stream=True and the create call returned: the generator is handed to
\* StreamingResponse, not yet started.
CreateStreaming ==
    /\ route = "standard"
    /\ pc = "request"
    /\ Accepted(request)
    /\ returned' = StreamingResponse
    /\ pc' = "start"
    /\ handler_calls' = handler_calls \o HandlerPrelude(request) \o <<RESPONSES_CREATE>>
    /\ UNCHANGED <<request, suspended, route, consumed, events, classifier, collector, save_calls, speech>>

\* NonStreamingResponse without the `if full_content:` guard.
NonStreamingResponse_Unguarded(output, ok) ==
    /\ route = "standard"
    /\ pc = "request"
    /\ Accepted(request)
    /\ consumed' = output
    /\ save_calls' = Append(save_calls, [content |-> FullContent(output), ok |-> ok])
    /\ returned' = IF ok
                   THEN SuccessJson(FullContent(output),
                                    DeduplicateCitations(RawCitations(output)), NewMessageId)
                   ELSE ErrorJson(DB_ERROR)
    /\ pc' = "returned"
    /\ handler_calls' = handler_calls \o HandlerPrelude(request) \o <<RESPONSES_CREATE>>
    /\ UNCHANGED <<request, suspended, route, events, classifier, collector, speech>>

\* stream=False: "Non-streaming response - extract content and citations
\* from response object", deduplicate, save, return the dict.
NonStreamingResponse(output, ok) ==
    /\ route = "standard"
    /\ pc = "request"
    /\ Accepted(request)
    /\ consumed' = output
    /\ LET full_content == FullContent(output)
           unique_citations == DeduplicateCitations(RawCitations(output))
       IN  IF full_content # <<>>
           THEN /\ save_calls' = Append(save_calls, [content |-> full_content, ok |-> ok])
                /\ returned' = IF ok
                               THEN SuccessJson(full_content, unique_citations, NewMessageId)
                               ELSE ErrorJson(DB_ERROR)
           ELSE /\ ok
                /\ returned' = SuccessJson(full_content, unique_citations, 0)
                /\ UNCHANGED save_calls
    /\ pc' = "returned"
    /\ handler_calls' = handler_calls \o HandlerPrelude(request) \o <<RESPONSES_CREATE>>
    /\ UNCHANGED <<request, suspended, route, events, classifier, collector, speech>>

\* _handle_document_chat with stream=True: the user's message is saved and
\* the generator is handed to StreamingResponse; the model is not called yet.
DocHandleStreaming ==
    /\ route = "document"
    /\ pc = "request"
    /\ Accepted(request)
    /\ returned' = StreamingResponse
    /\ pc' = "start"
    /\ handler_calls' = handler_calls \o HandlerPrelude(request)
    /\ UNCHANGED <<request, suspended, route, consumed, events, classifier, collector, save_calls, speech>>

\* The strings stream_claude_with_documents can yield before it ends.
DocContents == UNION {[1..n -> {D_42, D_HereAre}] : n \in 0..MaxEvents}

\* _handle_document_chat with stream=False: the save is not guarded.
DocNonStreaming(contents, raises, ok) ==
    /\ route = "document"
    /\ pc = "request"
    /\ Accepted(request)
    /\ consumed' = [i \in 1..Len(contents) |->
                       UpstreamEvent("text", contents[i], NoAnnotation)]
    /\ IF raises
       THEN /\ ok
            /\ returned' = ErrorJson(UPSTREAM_ERROR)
            /\ UNCHANGED save_calls
       ELSE /\ save_calls' = Append(save_calls, [content |-> Join(contents), ok |-> ok])
            /\ returned' = IF ok
                           THEN SuccessJson(Join(contents), <<>>, NewMessageId)
                           ELSE ErrorJson(DB_ERROR)
    /\ pc' = "returned"
    /\ handler_calls' = handler_calls \o HandlerPrelude(request) \o <<STREAM_CLAUDE>>
    /\ UNCHANGED <<request, suspended, route, events, classifier, collector, speech>>

\* str(e) of the HTTPException(400) raised for an empty message.
MESSAGE_REQUIRED == <<"m","e","s","s","a","g","e">>

\* `if not message_text: raise HTTPException(400)`: nothing has been
\* called yet, and the handler's own except turns it into the error dict.
MessageRequired ==
    /\ pc = "request"
    /\ ~Accepted(request)
    /\ returned' = ErrorJson(MESSAGE_REQUIRED)
    /\ pc' = "returned"
    /\ UNCHANGED <<handler, suspended, route, consumed, events, classifier, collector,
                   save_calls, speech>>

InitSendMessage ==
    /\ request = StreamRequest
    /\ handler_calls = <<>>
    /\ returned = NotReturned
    /\ suspended = FreshLocals
    /\ raw_text = <<>>
    /\ sentence_buffer = <<>>
    /\ dispatched = <<>>
    /\ route \in {"standard", "document"}
    /\ pc = "request"
    /\ consumed = <<>>
    /\ events = <<>>
    /\ in_inline_reasoning = TRUE
    /\ text_buffer_parts = <<>>
    /\ reasoning_parts = <<>>
    /\ inline_reasoning_parts = <<>>
    /\ output_parts = <<>>
    /\ full_response_parts = <<>>
    /\ citations = <<>>
    /\ seen_citation_urls = {}
    /\ current_content_index = 0
    /\ save_calls = <<>>

NextSendMessage ==
    \/ TokenNotConfigured
    \/ CreateRaises
    \/ CreateStreaming
    \/ /\ pc = "request"
       /\ \E output \in ResponseOutputs, ok \in BOOLEAN : NonStreamingResponse(output, ok)
    \/ DocHandleStreaming
    \/ /\ pc = "request"
       /\ \E contents \in DocContents, raises \in BOOLEAN, ok \in BOOLEAN :
             DocNonStreaming(contents, raises, ok)
    \/ Next

SpecSendMessage == InitSendMessage /\ [][NextSendMessage]_vars

-----------------------------------------------------------------------------
(* Streaming TTS pipeline (backend/routers/tts.py): the generator of       *)
(* /speak-stream, which buffers cleaned text and sends it to the TTS       *)
(* provider sentence by sentence.                                          *)

MIN_SENTENCE_LENGTH == 10

TerminalPunctuation == {".", "!", "?"}

\* re.search(r'[.!?]\s+', text): position of the first terminal punctuation
\* mark that is followed by whitespace (0 if none); match.start() + 1.
FirstBoundary(s) ==
    LET IsBoundary(p) == s[p] \in TerminalPunctuation /\ s[p + 1] \in Whitespace
    IN  IF \E p \in 1..(Len(s) - 1) : IsBoundary(p)
        THEN CHOOSE p \in 1..(Len(s) - 1) :
                IsBoundary(p) /\ \A k \in 1..(p - 1) : ~IsBoundary(k)
        ELSE 0

has_complete_sentence(s) ==
    FirstBoundary(s) # 0 /\ FirstBoundary(s) - 1 >= MIN_SENTENCE_LENGTH

\* extract_sentence whose pattern lacks re.DOTALL: `.` stops at a newline.
extract_sentence_NoDotAll(s) ==
    LET Ends(n) == /\ s[n] \in TerminalPunctuation
                   /\ s[n + 1] \in Whitespace
                   /\ \A k \in 1..(n - 1) : s[k] # "\n"
        lengths == {n \in 1..(Len(s) - 1) : Ends(n)}
        n == CHOOSE n \in lengths : \A m \in lengths : n <= m
    IN  IF lengths # {}
        THEN <<Strip(SubSeq(s, 1, n)), Strip(SubSeq(s, n + 1, Len(s)))>>
        ELSE <<s, <<>>>>

\* re.search(r'^(.*?[.!?])\s+', text, re.DOTALL): group 1 is the shortest
\* prefix that ends in a terminal punctuation mark and is followed by
\* whitespace; the rest starts after the match. Both are stripped.
extract_sentence(s) ==
    LET Ends(n) == s[n] \in TerminalPunctuation /\ s[n + 1] \in Whitespace
        lengths == {n \in 1..(Len(s) - 1) : Ends(n)}
        n == CHOOSE n \in lengths : \A m \in lengths : n <= m
    IN  IF lengths # {}
        THEN <<Strip(SubSeq(s, 1, n)), Strip(SubSeq(s, n + 1, Len(s)))>>
        ELSE <<s, <<>>>>

\* The sentences taken by `while has_complete_sentence(sentence_buffer)`.
RECURSIVE DrainSentences(_)
DrainSentences(buffer) ==
    IF has_complete_sentence(buffer)
    THEN <<extract_sentence(buffer)[1]>> \o DrainSentences(extract_sentence(buffer)[2])
    ELSE <<>>

\* sentence_buffer when that loop exits.
RECURSIVE DrainRemainder(_)
DrainRemainder(buffer) ==
    IF has_complete_sentence(buffer)
    THEN DrainRemainder(extract_sentence(buffer)[2])
    ELSE buffer

\* _strip_think_tags: re.sub(r'<think>.*?</think>\s*', '', text) under
\* DOTALL | IGNORECASE, without the final strip().
RECURSIVE RemoveThinkBlocks(_)
RemoveThinkBlocks(s) ==
    LET lower == LowerText(s)
        i == Find(lower, THINK_OPEN)
        rest == SubSeq(lower, i + Len(THINK_OPEN), Len(s))
        j == Find(rest, THINK_CLOSE)
    IN  IF i # 0 /\ j # 0
        THEN SubSeq(s, 1, i - 1)
             \o RemoveThinkBlocks(
                    LStrip(SubSeq(s, i + Len(THINK_OPEN) + j + Len(THINK_CLOSE) - 1, Len(s))))
        ELSE s

strip_think_tags(s) == Strip(RemoveThinkBlocks(s))

C_Dr == <<"D","r","."," ","S","m","i","t","h"," ","w","i","l","l"," ","s","e","e"," ","y","o","u"," ","n","o","w","."," ">>

C_He == <<"H","e"," ","i","s"," ","i","n","."," ">>

C_Doctor == <<"T","h","e"," ","d","o","c","t","o","r"," ","w","i","l","l"," ","s","e","e"," ","y","o","u"," ","n","o","w","."," ">>

C_Lines == <<"L","i","n","e"," ","o","n","e","\n","a","n","d"," ","l","i","n","e"," ","t","w","o","."," ">>

\* A chunk of whitespace only.
C_Blank == <<" ", "\n">>

\* A chunk of two sentences and the start of a third.
C_Two == <<"I","t"," ","i","s"," ","r","a","i","n","i","n","g"," ","n","o","w","."," ","T","a","k","e"," ","a","n"," ","u","m","b","r","e","l","l","a","."," ","B","y","e">>

C_Five == <<"F","i","v","e"," ">>

C_Six == <<"s","i","x","."," ">>

R_OnlyThink == <<"<","t","h","i","n","k",">","P","l","a","n","<","/","t","h","i","n","k",">">>

R_ThinkThenText == <<"<","T","H","I","N","K",">","P","l","a","n","<","/","t","h","i","n","k",">","\n","\n","G","o","o","d"," ","m","o","r","n","i","n","g"," ","t","o"," ","y","o","u","."," ">>

NO_TEXT_ERROR == <<"N","o"," ","t","e","x","t"," ","a","f","t","e","r"," ","c","l","e","a","n","i","n","g">>

\* request.get("text", "").strip(): never empty when the generator runs.
RawTexts == { R_OnlyThink, R_ThinkThenText, Strip(C_Dr) }

\* chunk.choices[0].delta.content of the cleaning model's stream.
CleanedChunks == { C_Dr, C_He, C_Doctor, C_Lines, C_Two, C_Five, C_Six, C_Blank }

\* One frame per sentence stands for the audio chunks of that sentence.
Audio(sentence) == Event("audio", sentence, <<>>, 0)

DoneSentences(n) == Event("done", <<>>, <<>>, n)

\* The frames of the sentences whose TTS call succeeded.
AudioFrames(calls) ==
    LET good == SelectSeq(calls, LAMBDA c : c.ok)
    IN  [i \in 1..Len(good) |-> Audio(good[i].text)]

\* "1. Strip <think> tags": an empty result ends the stream with an error.
TtsStart ==
    /\ route = "tts"
    /\ pc = "start"
    /\ IF strip_think_tags(raw_text) = <<>>
       THEN /\ events' = Append(events, Error(NO_TEXT_ERROR))
            /\ pc' = "failed"
       ELSE /\ pc' = "streaming"
            /\ UNCHANGED events
    /\ UNCHANGED <<handler, suspended, route, returned, consumed, classifier, collector, save_calls, speech>>

\* TtsOnChunk with `if` for `while`: at most one sentence leaves the buffer
\* per chunk.
TtsOnChunk_OneSentencePerChunk(chunk) ==
    /\ route = "tts"
    /\ pc = "streaming"
    /\ Len(consumed) < MaxEvents
    /\ consumed' = Append(consumed, UpstreamEvent("text", chunk, NoAnnotation))
    /\ LET buffer == sentence_buffer \o chunk
           taken == has_complete_sentence(buffer)
           sentences == IF taken /\ Strip(extract_sentence(buffer)[1]) # <<>>
                        THEN <<extract_sentence(buffer)[1]>> ELSE <<>>
       IN  /\ \E failed \in SUBSET (1..Len(sentences)) :
                LET calls == [i \in 1..Len(sentences) |->
                                 [text |-> sentences[i], ok |-> i \notin failed]]
                IN  /\ dispatched' = dispatched \o calls
                    /\ events' = events \o AudioFrames(calls)
           /\ sentence_buffer' = IF taken THEN extract_sentence(buffer)[2] ELSE buffer
    /\ UNCHANGED <<handler, suspended, route, returned, pc, classifier, collector, save_calls, raw_text>>

\* TtsOnChunk in which a failed TTS call reaches the outer except: the
\* sentences behind it are given up and the stream ends with an error frame.
TtsOnChunk_FailureEndsStream(chunk) ==
    /\ route = "tts"
    /\ pc = "streaming"
    /\ Len(consumed) < MaxEvents
    /\ consumed' = Append(consumed, UpstreamEvent("text", chunk, NoAnnotation))
    /\ LET buffer == sentence_buffer \o chunk
           sentences == SelectSeq(DrainSentences(buffer), LAMBDA t : Strip(t) # <<>>)
       IN  /\ \E failed \in SUBSET (1..Len(sentences)) :
                LET upto == IF failed = {} THEN Len(sentences)
                            ELSE CHOOSE i \in failed : \A k \in failed : i <= k
                    made == [i \in 1..upto |->
                                [text |-> sentences[i], ok |-> i \notin failed]]
                IN  /\ dispatched' = dispatched \o made
                    /\ events' = (events \o AudioFrames(made))
                                 \o (IF failed = {} THEN <<>> ELSE <<Error(UPSTREAM_ERROR)>>)
                    /\ pc' = IF failed = {} THEN pc ELSE "failed"
           /\ sentence_buffer' = DrainRemainder(buffer)
    /\ UNCHANGED <<handler, suspended, route, returned, classifier, collector, save_calls, raw_text>>

\* One chunk of stream_clean_text (the text itself when the cleaning model
\* is not configured or fails): buffer it, then send every complete
\* sentence to the TTS provider; a provider failure skips to the next one.
TtsOnChunk(chunk) ==
    /\ route = "tts"
    /\ pc = "streaming"
    /\ Len(consumed) < MaxEvents
    /\ consumed' = Append(consumed, UpstreamEvent("text", chunk, NoAnnotation))
    /\ LET buffer == sentence_buffer \o chunk
           sentences == SelectSeq(DrainSentences(buffer), LAMBDA t : Strip(t) # <<>>)
       IN  /\ \E failed \in SUBSET (1..Len(sentences)) :
                LET calls == [i \in 1..Len(sentences) |->
                                 [text |-> sentences[i], ok |-> i \notin failed]]
                IN  /\ dispatched' = dispatched \o calls
                    /\ events' = events \o AudioFrames(calls)
           /\ sentence_buffer' = DrainRemainder(buffer)
    /\ UNCHANGED <<handler, suspended, route, returned, pc, classifier, collector, save_calls, raw_text>>

\* TtsEnd that sends the done frame without the text left in the buffer.
TtsEnd_NoFinalUnit(ok) ==
    /\ route = "tts"
    /\ pc = "streaming"
    /\ ok
    /\ events' = Append(events, DoneSentences(Len(dispatched)))
    /\ pc' = "done"
    /\ UNCHANGED <<handler, suspended, route, returned, consumed, classifier, collector,
                   save_calls, speech>>

\* "Handle remaining text in buffer", then the done frame with the count.
TtsEnd(ok) ==
    /\ route = "tts"
    /\ pc = "streaming"
    /\ LET final == Strip(sentence_buffer)
           calls == IF final # <<>> THEN <<[text |-> final, ok |-> ok]>> ELSE <<>>
       IN  /\ final = <<>> => ok
           /\ dispatched' = dispatched \o calls
           /\ events' = (events \o AudioFrames(calls))
                        \o <<DoneSentences(Len(dispatched) + Len(calls))>>
    /\ pc' = "done"
    /\ UNCHANGED <<handler, suspended, route, returned, consumed, classifier, collector, save_calls,
                   raw_text, sentence_buffer>>

InitTts ==
    /\ request = StreamRequest
    /\ handler_calls = <<>>
    /\ returned = StreamingResponse
    /\ suspended = FreshLocals
    /\ raw_text \in RawTexts
    /\ sentence_buffer = <<>>
    /\ dispatched = <<>>
    /\ route = "tts"
    /\ pc = "start"
    /\ consumed = <<>>
    /\ events = <<>>
    /\ in_inline_reasoning = TRUE
    /\ text_buffer_parts = <<>>
    /\ reasoning_parts = <<>>
    /\ inline_reasoning_parts = <<>>
    /\ output_parts = <<>>
    /\ full_response_parts = <<>>
    /\ citations = <<>>
    /\ seen_citation_urls = {}
    /\ current_content_index = 0
    /\ save_calls = <<>>

NextTts ==
    \/ TtsStart
    \/ \E chunk \in CleanedChunks \cup {strip_think_tags(raw_text)} : TtsOnChunk(chunk)
    \/ \E ok \in BOOLEAN : TtsEnd(ok)

SpecTts == InitTts /\ [][NextTts]_vars

-----------------------------------------------------------------------------
(* Two /send streaming requests served by one process. Each call of        *)
(* send_message creates its own generate_stream, whose state is held in    *)
(* the locals of that generator; the database is the one thing they share. *)
(* The generator that runs has its locals in the variables above, the      *)
(* other one has them in `suspended`.                                      *)

\* The locals of the generator that is running.
RunningLocals ==
    [pc |-> pc, consumed |-> consumed, events |-> events,
     in_inline_reasoning |-> in_inline_reasoning,
     text_buffer_parts |-> text_buffer_parts,
     reasoning_parts |-> reasoning_parts,
     inline_reasoning_parts |-> inline_reasoning_parts,
     output_parts |-> output_parts, full_response_parts |-> full_response_parts,
     citations |-> citations, seen_citation_urls |-> seen_citation_urls,
     current_content_index |-> current_content_index]

\* Switch with the citation seen-set kept in one module-level set that
\* both generators use.
Switch_SharedSeenSet ==
    /\ route = "standard"
    /\ suspended' = RunningLocals
    /\ pc' = suspended.pc
    /\ consumed' = suspended.consumed
    /\ events' = suspended.events
    /\ in_inline_reasoning' = suspended.in_inline_reasoning
    /\ text_buffer_parts' = suspended.text_buffer_parts
    /\ reasoning_parts' = suspended.reasoning_parts
    /\ inline_reasoning_parts' = suspended.inline_reasoning_parts
    /\ output_parts' = suspended.output_parts
    /\ full_response_parts' = suspended.full_response_parts
    /\ citations' = suspended.citations
    /\ current_content_index' = suspended.current_content_index
    /\ UNCHANGED <<handler, route, returned, speech, save_calls, seen_citation_urls>>

\* The server stops driving one generator and drives the other: each
\* resumes with the locals it was left with.
Switch ==
    /\ route = "standard"
    /\ suspended' = RunningLocals
    /\ pc' = suspended.pc
    /\ consumed' = suspended.consumed
    /\ events' = suspended.events
    /\ in_inline_reasoning' = suspended.in_inline_reasoning
    /\ text_buffer_parts' = suspended.text_buffer_parts
    /\ reasoning_parts' = suspended.reasoning_parts
    /\ inline_reasoning_parts' = suspended.inline_reasoning_parts
    /\ output_parts' = suspended.output_parts
    /\ full_response_parts' = suspended.full_response_parts
    /\ citations' = suspended.citations
    /\ seen_citation_urls' = suspended.seen_citation_urls
    /\ current_content_index' = suspended.current_content_index
    /\ UNCHANGED <<handler, route, returned, speech, save_calls>>

\* Most upstream events the two streams deliver together.
MaxInterleaved == 3

ConcurrentTextDeltas == { D_42, D_StepBMarkerAnswer }

ConcurrentAnnotations == { a \in Annotations : a.url = "U1" }

InitConcurrent ==
    /\ Init
    /\ route = "standard"

NextConcurrent ==
    \/ Switch
    \/ Start
    \/ /\ Len(consumed) + Len(suspended.consumed) < MaxInterleaved
       /\ \/ \E d \in ReasoningDeltas : OnReasoningDelta(d)
          \/ \E d \in ConcurrentTextDeltas : OnTextDelta(d)
          \/ \E a \in ConcurrentAnnotations : OnAnnotation(a)
    \/ UpstreamRaises
    \/ FlushResidual
    \/ SendReasoning
    \/ SendCitations
    \/ \E ok \in BOOLEAN : SaveAssistant(ok)
    \/ SendDone

SpecConcurrent == InitConcurrent /\ [][NextConcurrent]_vars

-----------------------------------------------------------------------------
(* The same generator fed with deltas around the closing marker: a marker  *)
(* with answer text after it, with nothing but newlines after it, and two  *)
(* markers in one delta.                                                   *)

D_MarkerOnly == <<"S","t","e","p"," ","C","<","/","t","h","i","n","k",">","\n","\n">>

D_TwoMarkers == <<"a","<","/","t","h","i","n","k",">","b","<","/","t","h","i","n","k",">","c">>

\* A reasoning-summary delta with one tag written inside another.
D_NestedTag == <<"<","t","h","i","<","t","h","i","n","k",">","n","k",">","S","t","e","p">>

\* A reasoning-summary delta that holds a closing tag in upper case.
D_UpperClose == <<"P","l","a","n","<","/","T","H","I","N","K",">","a","l","o","u","d">>

ClassifierReasoningDeltas == { D_StepA, D_NestedTag, D_UpperClose }

MarkerTextDeltas == { D_42, D_HereAre, D_StepBMarkerAnswer, D_MarkerOnly, D_TwoMarkers }

InitClassifier ==
    /\ Init
    /\ route = "standard"

NextClassifier ==
    \/ Start
    \/ \E d \in ClassifierReasoningDeltas : OnReasoningDelta(d)
    \/ \E d \in MarkerTextDeltas : OnTextDelta(d)
    \/ \E a \in ConcurrentAnnotations : OnAnnotation(a)
    \/ UpstreamRaises
    \/ FlushResidual
    \/ SendReasoning
    \/ SendCitations
    \/ \E ok \in BOOLEAN : SaveAssistant(ok)
    \/ SendDone

SpecClassifier == InitClassifier /\ [][NextClassifier]_vars

-----------------------------------------------------------------------------
(* The /send handler over every request body, with short responses.        *)

\* A thread that was just created holds no documents.
InitRequest ==
    /\ request \in Requests
    /\ handler_calls = <<>>
    /\ returned = NotReturned
    /\ suspended = FreshLocals
    /\ raw_text = <<>>
    /\ sentence_buffer = <<>>
    /\ dispatched = <<>>
    /\ route \in IF request.thread_id = "T1" THEN {"standard", "document"}
                 ELSE {"standard"}
    /\ pc = "request"
    /\ consumed = <<>>
    /\ events = <<>>
    /\ in_inline_reasoning = TRUE
    /\ text_buffer_parts = <<>>
    /\ reasoning_parts = <<>>
    /\ inline_reasoning_parts = <<>>
    /\ output_parts = <<>>
    /\ full_response_parts = <<>>
    /\ citations = <<>>
    /\ seen_citation_urls = {}
    /\ current_content_index = 0
    /\ save_calls = <<>>

NextRequest ==
    \/ MessageRequired
    \/ TokenNotConfigured
    \/ CreateRaises
    \/ CreateStreaming
    \/ /\ pc = "request"
       /\ \E output \in {o \in ResponseOutputs : Len(o) <= 2}, ok \in BOOLEAN :
             NonStreamingResponse(output, ok)
    \/ DocHandleStreaming
    \/ /\ pc = "request"
       /\ \E contents \in {c \in DocContents : Len(c) <= 1}, raises \in BOOLEAN,
             ok \in BOOLEAN : DocNonStreaming(contents, raises, ok)
    \/ Start
    \/ \E d \in ConcurrentTextDeltas : OnTextDelta(d)
    \/ UpstreamRaises
    \/ FlushResidual
    \/ SendReasoning
    \/ SendCitations
    \/ \E ok \in BOOLEAN : SaveAssistant(ok)
    \/ SendDone
    \/ DocStart
    \/ \E c \in ConcurrentTextDeltas : DocOnContent(c)
    \/ DocCreateRaises
    \/ DocUpstreamRaises
    \/ \E ok \in BOOLEAN : DocSaveAssistant(ok)
    \/ DocSendDone

SpecRequest == InitRequest /\ [][NextRequest]_vars

-----------------------------------------------------------------------------
(* The limit on the conversation history: the first thing send_message     *)
(* does with an accepted body.                                             *)

Roles == {"system", "user", "assistant"}

MaxHistory == 4

\* MAX_CONVERSATION_MESSAGES is int() of an environment variable (20 when
\* it is not set); the lengths below reach the small values of it.
MaxLimit == 3

Limits == 0..MaxLimit

\* A history is a list of messages; content tells the messages apart.
History(roles) == [k \in 1..Len(roles) |-> [role |-> roles[k], content |-> k]]

Histories ==
    UNION {{History(roles) : roles \in [1..n -> Roles]} : n \in 0..MaxHistory}

\* Python's h[start:] for a list h and an integer start.
SliceFrom(h, start) ==
    LET from == IF start < 0
                THEN (IF Len(h) + start < 0 THEN 0 ELSE Len(h) + start)
                ELSE (IF start > Len(h) THEN Len(h) ELSE start)
    IN  SubSeq(h, from + 1, Len(h))

\* `if len(conversation_history) > MAX_CONVERSATION_MESSAGES:` and its
\* two branches.
LimitedHistory(h, MAX_CONVERSATION_MESSAGES) ==
    IF Len(h) > MAX_CONVERSATION_MESSAGES
    THEN IF h # <<>> /\ h[1].role = "system"
         THEN <<h[1]>> \o SliceFrom(h, -(MAX_CONVERSATION_MESSAGES - 1))
         ELSE SliceFrom(h, -MAX_CONVERSATION_MESSAGES)
    ELSE h

HistoryRequests ==
    [message : {D_42}, thread_id : {"T1"}, conversation_history : Histories,
     MAX_CONVERSATION_MESSAGES : Limits]

\* The handler replaces conversation_history by the limited one.
LimitHistory ==
    /\ pc = "history"
    /\ request' = [request EXCEPT !.conversation_history =
                      LimitedHistory(@, request.MAX_CONVERSATION_MESSAGES)]
    /\ pc' = "request"
    /\ UNCHANGED <<handler_calls, suspended, route, consumed, events, classifier,
                   collector, save_calls, returned, speech>>

InitHistory ==
    /\ request \in HistoryRequests
    /\ handler_calls = <<>>
    /\ returned = NotReturned
    /\ suspended = FreshLocals
    /\ raw_text = <<>>
    /\ sentence_buffer = <<>>
    /\ dispatched = <<>>
    /\ route = "standard"
    /\ pc = "history"
    /\ consumed = <<>>
    /\ events = <<>>
    /\ in_inline_reasoning = TRUE
    /\ text_buffer_parts = <<>>
    /\ reasoning_parts = <<>>
    /\ inline_reasoning_parts = <<>>
    /\ output_parts = <<>>
    /\ full_response_parts = <<>>
    /\ citations = <<>>
    /\ seen_citation_urls = {}
    /\ current_content_index = 0
    /\ save_calls = <<>>

NextHistory == LimitHistory

SpecHistory == InitHistory /\ [][NextHistory]_vars

-----------------------------------------------------------------------------
(* Footnote extractor: the pass over the residual buffer at stream end     *)
(* that pulls out the footnote definitions `[^id]: text`, numbers them and *)
(* rewrites the inline references `[^id]`.                                 *)

REF_OPEN == <<"[", "^">>

\* Position of the `]` that closes the marker opened at i (0 if the marker
\* is not closed on its line).
RefClose(s, i) ==
    LET stops == {j \in (i + 2)..Len(s) : s[j] \in {"]", "[", "\n"}}
    IN  IF stops = {} THEN 0
        ELSE LET j == CHOOSE j \in stops : \A k \in stops : j <= k
             IN  IF s[j] = "]" /\ j > i + 2 THEN j ELSE 0

\* A reference marker `[^id]` starts at i.
IsRefAt(s, i) == MatchAt(s, i, REF_OPEN) /\ RefClose(s, i) # 0

RefId(s, i) == SubSeq(s, i + 2, RefClose(s, i) - 1)

\* A definition "marker-id, colon, content" starts at i: at the beginning
\* of the buffer or after a newline.
IsDefAt(s, i) ==
    /\ i = 1 \/ s[i - 1] = "\n"
    /\ IsRefAt(s, i)
    /\ RefClose(s, i) < Len(s)
    /\ s[RefClose(s, i) + 1] = ":"

DefStarts(s) == SelectSeq([i \in 1..Len(s) |-> i], LAMBDA i : IsDefAt(s, i))

\* FootnoteList that numbers the definitions by the order of their ids.
FootnoteList_NumberById(s) ==
    LET d == DefStarts(s)
        Before(a, b) == \/ Len(a) < Len(b)
                        \/ Len(a) = Len(b) /\ a # b
                           /\ LET i == CHOOSE i \in 1..Len(a) :
                                           a[i] # b[i] /\ \A k \in 1..(i - 1) : a[k] = b[k]
                              IN  \E m, n \in 1..Len(LowerLetters) :
                                      /\ LowerLetters[m] = a[i]
                                      /\ LowerLetters[n] = b[i]
                                      /\ m < n
    IN  [k \in 1..Len(d) |->
            [id |-> RefId(s, d[k]),
             number |-> 1 + Cardinality({j \in 1..Len(d) :
                                            Before(RefId(s, d[j]), RefId(s, d[k]))}),
             content |-> Strip(SubSeq(s, RefClose(s, d[k]) + 2,
                                      IF k < Len(d) THEN d[k + 1] - 1 ELSE Len(s)))]]

\* Steps 1-2: each definition runs to the next definition or to the end of
\* the buffer and is numbered in order of appearance; content is trimmed.
FootnoteList(s) ==
    LET d == DefStarts(s)
    IN  [k \in 1..Len(d) |->
            [id |-> RefId(s, d[k]), number |-> k,
             content |-> Strip(SubSeq(s, RefClose(s, d[k]) + 2,
                                      IF k < Len(d) THEN d[k + 1] - 1 ELSE Len(s)))]]

\* Step 3: the buffer without the definition text.
WithoutDefinitions(s) ==
    IF DefStarts(s) = <<>> THEN s ELSE SubSeq(s, 1, DefStarts(s)[1] - 1)

\* Number of digits that follow position j.
RECURSIVE DigitRun(_, _)
DigitRun(s, j) ==
    IF j < Len(s) /\ s[j + 1] \in Range(Digits) THEN 1 + DigitRun(s, j + 1) ELSE 0

\* Position of the first reference marker at or after i (0 if none).
NextRef(s, i) ==
    IF \E k \in i..Len(s) : IsRefAt(s, k)
    THEN CHOOSE k \in i..Len(s) : IsRefAt(s, k) /\ \A m \in i..(k - 1) : ~IsRefAt(s, m)
    ELSE 0

\* Step 4: a reference marker immediately followed by digits is removed.
RECURSIVE RemoveArtifacts(_)
RemoveArtifacts(s) ==
    LET Artifact(k) == IsRefAt(s, k) /\ DigitRun(s, RefClose(s, k)) > 0
    IN  IF \E k \in 1..Len(s) : Artifact(k)
        THEN LET k == CHOOSE k \in 1..Len(s) :
                        Artifact(k) /\ \A m \in 1..(k - 1) : ~Artifact(m)
                 end == RefClose(s, k) + DigitRun(s, RefClose(s, k))
             IN  SubSeq(s, 1, k - 1) \o RemoveArtifacts(SubSeq(s, end + 1, Len(s)))
        ELSE s

\* The markup a reference is rewritten to: a superscript link to the
\* anchor named by the number.
SuperscriptLink(n) == <<"<","s","u","p",">","<","a"," ","h","r","e","f","=","\"","#","f","n","-">> \o Str(n) \o <<"\"",">">> \o Str(n) \o <<"<","/","a",">","<","/","s","u","p",">">>

\* RewriteRefs that rewrites only the first reference, always to number 1.
RewriteRefs_AlwaysFirst(s, footnotes) ==
    IF NextRef(s, 1) = 0 \/ footnotes = <<>> THEN s
    ELSE SubSeq(s, 1, NextRef(s, 1) - 1) \o SuperscriptLink(1)
         \o SubSeq(s, RefClose(s, NextRef(s, 1)) + 1, Len(s))

\* Step 5: every remaining reference whose id is defined becomes the link
\* to its number; the others are left as they are.
RECURSIVE RewriteRefs(_, _)
RewriteRefs(s, footnotes) ==
    LET k == NextRef(s, 1)
        end == RefClose(s, k)
        defined == {n \in 1..Len(footnotes) : footnotes[n].id = RefId(s, k)}
        number == CHOOSE n \in defined : \A m \in defined : m <= n
    IN  IF k = 0 THEN s
        ELSE SubSeq(s, 1, k - 1)
             \o (IF defined # {} THEN SuperscriptLink(number) ELSE SubSeq(s, k, end))
             \o RewriteRefs(SubSeq(s, end + 1, Len(s)), footnotes)

MainContent(s) == RewriteRefs(RemoveArtifacts(WithoutDefinitions(s)), FootnoteList(s))

S_SeeNote == <<"S","e","e"," ","n","o","t","e",".">>

S_RefA == <<"[","^","a","]">>

S_RefB == <<"[","^","b","]">>

S_Break == <<"\n","\n">>

S_DefA == <<"[","^","a","]",":"," ","E","x","t","r","a"," ","d","e","t","a","i","l",".">>

S_DefB == <<"\n","[","^","b","]",":"," ","M","o","r","e","\n","t","e","x","t",".">>

S_Digits == <<"1","2">>

\* Most segments a residual buffer is made of.
MaxSegments == 4

Segments == { S_SeeNote, S_RefA, S_RefB, S_Break, S_DefA, S_DefB, S_Digits }

\* The residual buffers: no footnote id is defined twice.
FootnoteBuffers ==
    {Join(q) : q \in {q \in UNION {[1..n -> Segments] : n \in 0..MaxSegments} :
                         \A i, j \in 1..Len(q) :
                             i # j /\ q[i] \in {S_DefA, S_DefB} => q[i] # q[j]}}

Footnotes(list) == Event("footnotes", <<>>, list, 0)

\* Step 6: the main content as one Content event and the footnote list as
\* one Footnotes event, each only if non-empty.
ExtractFootnotes ==
    /\ route = "footnotes"
    /\ pc = "start"
    /\ LET buffer == Join(text_buffer_parts)
       IN  events' = (IF MainContent(buffer) # <<>>
                      THEN <<Content(MainContent(buffer))>> ELSE <<>>)
                     \o (IF FootnoteList(buffer) # <<>>
                         THEN <<Footnotes(FootnoteList(buffer))>> ELSE <<>>)
    /\ pc' = "done"
    /\ UNCHANGED <<handler, suspended, route, returned, speech, consumed, classifier, collector,
                   save_calls>>

InitFootnotes ==
    /\ request = StreamRequest
    /\ handler_calls = <<>>
    /\ returned = StreamingResponse
    /\ suspended = FreshLocals
    /\ raw_text = <<>>
    /\ sentence_buffer = <<>>
    /\ dispatched = <<>>
    /\ route = "footnotes"
    /\ pc = "start"
    /\ consumed = <<>>
    /\ events = <<>>
    /\ in_inline_reasoning = TRUE
    /\ text_buffer_parts \in {<<b>> : b \in FootnoteBuffers}
    /\ reasoning_parts = <<>>
    /\ inline_reasoning_parts = <<>>
    /\ output_parts = <<>>
    /\ full_response_parts = <<>>
    /\ citations = <<>>
    /\ seen_citation_urls = {}
    /\ current_content_index = 0
    /\ save_calls = <<>>

NextFootnotes == ExtractFootnotes

SpecFootnotes == InitFootnotes /\ [][NextFootnotes]_vars

-----------------------------------------------------------------------------
(* What a client and the database observe, for the properties below.       *)

EventsOfType(type) == SelectSeq(events, LAMBDA e : e.type = type)

IndexesOfType(types) == {i \in 1..Len(events) : events[i].type \in types}

\* In-order concatenation of the text of every Content event sent.
EmittedContent ==
    LET c == EventsOfType("content") IN Join([i \in 1..Len(c) |-> c[i].text])

\* The deltas of the upstream events of one kind, in arrival order.
ConsumedDeltas(kind) ==
    LET c == SelectSeq(consumed, LAMBDA e : e.kind = kind)
    IN  [i \in 1..Len(c) |-> c[i].delta]

\* p occurs in s (the empty text occurs everywhere).
OccursIn(p, s) == p = <<>> \/ Contains(s, p)

Completed == pc \in {"done", "failed"}

SaveRaised == \E i \in 1..Len(save_calls) : ~save_calls[i].ok

-----------------------------------------------------------------------------
(* C1: on both streaming routes, whatever was received and whether or not  *)
(* the upstream iteration or the save raised, at most one terminal event   *)
(* (done or error) is ever emitted, nothing is emitted after it, and a     *)
(* completed stream has emitted exactly one.                               *)
C1_OneTerminalEventLast ==
    LET terminals == IndexesOfType({"done", "error"})
    IN  /\ Cardinality(terminals) <= 1
        /\ \A i \in terminals : i = Len(events)
        /\ Completed <=> Cardinality(terminals) = 1

\* A stream whose save raised and which still completed.
C1_Witness == Completed /\ SaveRaised /\ Len(consumed) >= 2

(* C2 as stated: every stream that is exhausted without an exception has   *)
(* called save_message for the assistant exactly once by the time Done is  *)
(* emitted, including streams that produce no answer text.                 *)
C2_SavedExactlyOnce ==
    pc = "done" => Len(save_calls) = 1

(* C2, amended: save_message for the assistant is called at most once; a   *)
(* stream exhausted without an exception has called it, before Done, once  *)
(* with the assembled content (the Reasoning frame's text, if one was      *)
(* sent, then the answer text) when it produced answer text, and not at    *)
(* all when it produced none.                                              *)
C2_SavedOnceIffAnswerText ==
    /\ Len(save_calls) <= 1
    /\ pc \in {"end", "done"} => (Len(save_calls) = 1 <=> EmittedContent # <<>>)
    /\ save_calls # <<>> =>
          LET r == EventsOfType("reasoning")
          IN  save_calls[1].content =
                 (IF r = <<>> THEN <<>> ELSE r[1].text) \o EmittedContent

\* A finished stream that saved reasoning and answer together.
C2_Witness ==
    /\ pc = "done"
    /\ Len(save_calls) = 1
    /\ EventsOfType("reasoning") # <<>>
    /\ Len(EventsOfType("content")) >= 2

(* C3 as stated: when Done is emitted, every text delta received has been  *)
(* placed in an emitted Content event or in the reasoning accumulator (a   *)
(* delta with the marker: the part before it in the reasoning accumulator, *)
(* the part after it, less its leading newlines, in a Content event).      *)
C3_NoDeltaTextDropped ==
    route = "standard" /\ pc = "done" =>
        LET reasoning == AllReasoning(reasoning_parts, inline_reasoning_parts)
            Placed(delta) ==
                IF Contains(delta, THINK_CLOSE)
                THEN /\ OccursIn(SplitAtMarker(delta)[1], reasoning)
                     /\ OccursIn(LStripNewlines(SplitAtMarker(delta)[2]), EmittedContent)
                ELSE OccursIn(delta, EmittedContent) \/ OccursIn(delta, reasoning)
        IN  \A i \in 1..Len(consumed) :
                consumed[i].kind = "text" => Placed(consumed[i].delta)

(* C4 as stated: in a stream of marker-free text deltas, when a delta that *)
(* begins with a real-content signature arrives after the pending buffer   *)
(* has matched a reasoning phrase, the Content events carry only the text  *)
(* from that delta onward and the Reasoning event wraps only the narration *)
(* before it.                                                              *)
C4_ContentStartsAtRealContentDelta ==
    LET deltas == ConsumedDeltas("text")
        IsStart(k) ==
            /\ k > 1
            /\ RealContentSearch(deltas[k])
            /\ InlineReasoningSearch(Join(SubSeq(deltas, 1, k - 1)))
            /\ \A j \in 1..(k - 1) : ~RealContentSearch(Join(SubSeq(deltas, 1, j)))
    IN  /\ route = "standard"
        /\ pc = "done"
        /\ Len(deltas) = Len(consumed)
        /\ \A i \in 1..Len(deltas) : ~Contains(deltas[i], THINK_CLOSE)
        /\ \E k \in 1..Len(deltas) : IsStart(k)
        => LET k == CHOOSE k \in 1..Len(deltas) : IsStart(k)
           IN  /\ EmittedContent = Join(SubSeq(deltas, k, Len(deltas)))
               /\ EventsOfType("reasoning") =
                     <<Reasoning(WrapReasoning(Strip(Join(SubSeq(deltas, 1, k - 1)))))>>

(* C5 as stated: once the final save has raised, on either route, no Error *)
(* event and no AssistantMessageId is emitted and the stream terminates    *)
(* with Done.                                                              *)
C5_SaveFailureOnlyLogged ==
    SaveRaised =>
        /\ IndexesOfType({"error", "assistant_message_id"}) = {}
        /\ pc # "failed"
        /\ Completed => events[Len(events)] = Done

(* C6: an exception raised while iterating the upstream stream, at any     *)
(* position, yields exactly one Error event carrying the message; it is    *)
(* the last event, no Done is emitted, and the generator has returned     *)
(* from its handler (it is in its failed end state).                       *)
C6_UpstreamErrorIsTerminal ==
    /\ pc = "failed" => IndexesOfType({"error"}) # {}
    /\ \A i \in IndexesOfType({"error"}) :
          events[i].text = UPSTREAM_ERROR =>
              /\ i = Len(events)
              /\ pc = "failed"
              /\ IndexesOfType({"error"}) = {i}
              /\ IndexesOfType({"done"}) = {}

\* The stream raised after content had already been streamed.
C6_Witness ==
    /\ route = "standard"
    /\ pc = "failed"
    /\ Len(consumed) >= 2
    /\ EventsOfType("content") # <<>>
    /\ events[Len(events)] = Error(UPSTREAM_ERROR)

(* C7: the first event of every streaming response is Metadata; it is      *)
(* emitted exactly once, before the first upstream event is consumed.      *)
C7_MetadataFirst ==
    /\ events # <<>> => events[1] = Metadata
    /\ IndexesOfType({"metadata"}) \subseteq {1}
    /\ consumed # <<>> \/ pc # "start" => events # <<>>

\* Upstream events were consumed and forwarded after the metadata frame.
C7_Witness == Len(consumed) >= 2 /\ Len(events) >= 3

\* No text delta so far held the marker, and the pending buffer, as long as
\* it was pending (500 characters or fewer before the delta), matched no
\* signature and did not start with `[`.
NoSignalSoFar ==
    LET deltas == ConsumedDeltas("text")
    IN  \A k \in 1..Len(deltas) :
            /\ ~Contains(deltas[k], THINK_CLOSE)
            /\ Len(Join(SubSeq(deltas, 1, k - 1))) <= 500 =>
                  LET buffer == Join(SubSeq(deltas, 1, k))
                  IN  /\ ~RealContentSearch(buffer)
                      /\ ~InlineReasoningSearch(buffer)
                      /\ buffer[1] # "["

(* C8: fail-open flush. While no signal has been seen, as soon as the text *)
(* received exceeds 500 characters the classifier is InContent and the     *)
(* Content events carry all the text received; at Done they carry all of   *)
(* it in any case.                                                         *)
C8_FailOpenFlush ==
    LET received == Join(ConsumedDeltas("text"))
    IN  /\ route = "standard" /\ Len(received) > 500 /\ NoSignalSoFar =>
              /\ ~in_inline_reasoning
              /\ text_buffer_parts = <<>>
              /\ EmittedContent = received
        /\ route = "standard" /\ pc = "done" /\ NoSignalSoFar =>
              EmittedContent = received

\* 600 characters in, 600 characters out, while the stream is still open.
C8_Witness ==
    /\ route = "standard"
    /\ pc = "streaming"
    /\ NoSignalSoFar
    /\ Len(Join(ConsumedDeltas("text"))) = 600
    /\ Len(EmittedContent) = 600

(* C9: at stream end, a classifier still InReasoning with a non-empty      *)
(* pending buffer has the whole buffer emitted as one Content event and    *)
(* appended to the content accumulator, before any Reasoning, Citations,   *)
(* AssistantMessageId or Done event.                                       *)
C9_ResidualBufferFlushed ==
    /\ route = "standard"
    /\ pc \in {"reasoning", "citations", "save", "end", "done"}
    /\ in_inline_reasoning = TRUE
    /\ Join(text_buffer_parts) # <<>>
    => /\ EventsOfType("content") = <<Content(Join(text_buffer_parts))>>
       /\ output_parts = <<Join(text_buffer_parts)>>
       /\ \A i \in IndexesOfType({"content"}) :
             \A j \in IndexesOfType({"reasoning", "citations",
                                     "assistant_message_id", "done"}) : i < j

\* A stream that ended InReasoning and went on to send reasoning,
\* citations and the end signal.
C9_Witness ==
    /\ pc = "done"
    /\ in_inline_reasoning = TRUE
    /\ Len(text_buffer_parts) >= 2
    /\ EventsOfType("reasoning") # <<>>
    /\ EventsOfType("citations") # <<>>

(* C10: when a stream carried both event-tagged and inline-detected        *)
(* reasoning text, a persisted assistant message is one <think> block      *)
(* holding the event-tagged text and then the inline text (tags removed,   *)
(* trimmed), followed by all the answer text.                              *)
C10_ReasoningWrapComplete ==
    LET tagged == StripThinkTags(Join(ConsumedDeltas("reasoning")))
        inline == StripThinkTags(Join(inline_reasoning_parts))
    IN  route = "standard" /\ Strip(tagged) # <<>> /\ Strip(inline) # <<>> =>
            \A i \in 1..Len(save_calls) :
                save_calls[i].content =
                    THINK_OPEN \o <<"\n">> \o Strip(tagged \o inline) \o <<"\n">>
                    \o THINK_CLOSE \o <<"\n", "\n">> \o EmittedContent

\* Inline reasoning and answer arrived before the event-tagged reasoning,
\* and the message was stored.
C10_Witness ==
    /\ pc = "done"
    /\ Len(consumed) = 3
    /\ consumed[1].kind = "text"
    /\ consumed[2].kind = "reasoning"
    /\ consumed[3].kind = "text"
    /\ inline_reasoning_parts # <<>>
    /\ save_calls # <<>>
    /\ save_calls[1].ok

(* C11: whenever a streaming route has stored an assistant message, the   *)
(* stored content is the text of the Reasoning event sent on that stream   *)
(* (nothing if none was sent) followed by the texts of all Content events  *)
(* sent, in order; a Reasoning event's text is the reasoning between       *)
(* "<think>\n" and "\n</think>\n\n".                                       *)
C11_StoredContentEqualsSent ==
    \A i \in 1..Len(save_calls) :
        LET r == EventsOfType("reasoning")
            sent == IF r = <<>> THEN <<>> ELSE r[1].text
            open == THINK_OPEN \o <<"\n">>
            close == <<"\n">> \o THINK_CLOSE \o <<"\n", "\n">>
        IN  /\ Len(r) <= 1
            /\ save_calls[i].content = sent \o EmittedContent
            /\ r # <<>> =>
                  /\ Len(sent) > Len(open) + Len(close)
                  /\ MatchAt(sent, 1, open)
                  /\ MatchAt(sent, Len(sent) - Len(close) + 1, close)

\* A stored message made of a reasoning block from event-tagged reasoning
\* and an answer, whose id was sent to the client.
C11_Witness ==
    /\ route = "standard"
    /\ pc = "done"
    /\ reasoning_parts # <<>>
    /\ inline_reasoning_parts = <<>>
    /\ EventsOfType("reasoning") # <<>>
    /\ EventsOfType("assistant_message_id") # <<>>
    /\ EmittedContent # <<>>

\* The annotations received so far, in arrival order.
ConsumedAnnotations ==
    LET c == SelectSeq(consumed, LAMBDA e : e.kind = "annotation")
    IN  [i \in 1..Len(c) |-> c[i].ann]

(* C12: citation dedup. Whatever annotations have arrived, the recorded    *)
(* citations hold each distinct non-empty url exactly once, each with the  *)
(* title and content_index of the first annotation that carried the url    *)
(* (a repeat of the pair, or the url under another title, changes          *)
(* nothing); collecting first and deduplicating at the end gives the same  *)
(* list; and the Citations event carries exactly that list.                *)
C12_CitationDedup ==
    LET anns == ConsumedAnnotations
        urls == {anns[i].url : i \in 1..Len(anns)} \ {NoUrl}
        First(u) == anns[CHOOSE i \in 1..Len(anns) :
                            /\ anns[i].url = u
                            /\ \A j \in 1..(i - 1) : anns[j].url # u]
    IN  /\ {citations[k].url : k \in 1..Len(citations)} = urls
        /\ Len(citations) = Cardinality(urls)
        /\ seen_citation_urls = urls
        /\ \A k \in 1..Len(citations) :
              /\ citations[k].title = First(citations[k].url).title
              /\ citations[k].content_index = First(citations[k].url).content_index
        /\ citations = DeduplicateCitations(anns)
        /\ \A i \in IndexesOfType({"citations"}) : events[i].citations = citations

\* One url arrived three times, under two titles, and the batch was sent.
C12_Witness ==
    /\ pc = "done"
    /\ Len(ConsumedAnnotations) = 3
    /\ Cardinality({ConsumedAnnotations[i].url : i \in 1..3}) = 1
    /\ Cardinality({ConsumedAnnotations[i].title : i \in 1..3}) = 2
    /\ Len(EventsOfType("citations")) = 1
    /\ Len(citations) = 1

\* Every citation list the program holds or has handed out: the
\* collector's list, the Citations events, the returned dict's list.
CitationBatches ==
    {citations, returned.citations}
    \cup {events[i].citations : i \in IndexesOfType({"citations"})}

\* Position of the first annotation received that carries url u.
FirstSeen(u) ==
    CHOOSE i \in 1..Len(ConsumedAnnotations) :
        /\ ConsumedAnnotations[i].url = u
        /\ \A j \in 1..(i - 1) : ConsumedAnnotations[j].url # u

(* C13: in every citation list, streamed or returned as JSON, the k-th     *)
(* citation has the id str(k), so the ids are "1", "2", "3", ... without   *)
(* gaps or repeats, and the citations are in the order in which their urls *)
(* were first seen.                                                        *)
C13_SequentialIds ==
    \A batch \in CitationBatches :
        /\ \A k \in 1..Len(batch) :
              /\ batch[k].id = Str(k)
              /\ batch[k].id = <<Digits[k + 1]>>
        /\ \A k, l \in 1..Len(batch) :
              k < l => FirstSeen(batch[k].url) < FirstSeen(batch[l].url)

\* A JSON response with two citations whose urls arrived around a repeat.
C13_Witness ==
    /\ returned.kind = "json"
    /\ Len(returned.citations) = 2
    /\ Len(ConsumedAnnotations) = 3
    /\ ConsumedAnnotations[1].url = ConsumedAnnotations[2].url

\* The raw citations of the annotations received, for either mode.
ReceivedCitations ==
    IF pc = "returned" THEN RawCitations(consumed)
    ELSE [i \in 1..Len(ConsumedAnnotations) |->
             [content_index |-> ConsumedAnnotations[i].content_index,
              title |-> ConsumedAnnotations[i].title,
              url |-> ConsumedAnnotations[i].url]]

(* C14: an annotation without a url is never recorded and takes no id:     *)
(* every citation list is what deduplication gives on the annotations      *)
(* received with the url-less ones left out; and it raises nothing: a      *)
(* non-streaming request that received one and whose save did not fail     *)
(* returns success.                                                        *)
C14_UrllessAnnotationIgnored ==
    LET with_url == SelectSeq(ReceivedCitations, LAMBDA c : c.url # NoUrl)
    IN  /\ \A batch \in CitationBatches :
              /\ \A k \in 1..Len(batch) : batch[k].url # NoUrl
              /\ batch # <<>> => batch = DeduplicateCitations(with_url)
        /\ pc # "request" /\ returned.kind # "json" =>
              citations = DeduplicateCitations(with_url)
        /\ /\ pc = "returned"
           /\ route = "standard"
           /\ Len(with_url) < Len(ReceivedCitations)
           /\ ~SaveRaised
           => /\ returned.status = "success"
              /\ returned.citations = DeduplicateCitations(with_url)

\* A url-less annotation arrived between two that were recorded, in a
\* non-streaming response.
C14_Witness ==
    /\ pc = "returned"
    /\ Len(ReceivedCitations) = 3
    /\ ReceivedCitations[2].url = NoUrl
    /\ Len(returned.citations) = 2

(* C15: a stream carries at most one Citations event; when it is sent the *)
(* loop over the upstream response has ended, so no upstream event is      *)
(* consumed after it; every Content event precedes it; and its list is     *)
(* the whole list recorded from all the annotations received.              *)
C15_CitationsOnceAtEnd ==
    LET sent == IndexesOfType({"citations"})
    IN  /\ Cardinality(sent) <= 1
        /\ \A i \in sent :
              /\ pc \in {"save", "end", "done"}
              /\ \A j \in IndexesOfType({"content"}) : j < i
              /\ events[i].citations = citations
              /\ Len(events[i].citations) =
                    Cardinality({ConsumedAnnotations[k].url :
                                    k \in 1..Len(ConsumedAnnotations)} \ {NoUrl})

\* An annotation, a text delta, a second annotation: the batch of two
\* follows the Content event.
C15_Witness ==
    /\ pc = "done"
    /\ Len(consumed) = 3
    /\ consumed[1].kind = "annotation"
    /\ consumed[3].kind = "annotation"
    /\ Len(EventsOfType("content")) = 1
    /\ Len(EventsOfType("citations")) = 1
    /\ Len(EventsOfType("citations")[1].citations) = 2

(* C16 as stated: in the TTS loop a terminal punctuation mark followed by *)
(* whitespace at an offset below 10 is not a split point and does not      *)
(* prevent the split at a later one at offset 10 or more: between chunks   *)
(* the buffer holds no boundary at offset 10 or more ("Dr. Smith will see  *)
(* you now. " has been split at its final period).                         *)
C16_SplitsAtLaterBoundary ==
    route = "tts" /\ pc = "streaming" =>
        \A p \in 1..(Len(sentence_buffer) - 1) :
            /\ sentence_buffer[p] \in TerminalPunctuation
            /\ sentence_buffer[p + 1] \in Whitespace
            => p - 1 < MIN_SENTENCE_LENGTH

\* The upstream model call could not be established: the token is not
\* configured, or the call that opens the response raised.
UpstreamUnavailable ==
    \/ returned \in {ErrorJson(TOKEN_ERROR), ErrorJson(CREATE_ERROR)}
    \/ \E i \in 1..Len(events) : events[i] = Error(CREATE_ERROR)

(* C17 as stated: when the upstream model call cannot be established the   *)
(* caller gets a synchronous error response: the handler has returned an   *)
(* error object, no generator was started, no SSE frame was sent and no    *)
(* assistant message was persisted.                                        *)
C17_UnavailableIsSynchronousError ==
    UpstreamUnavailable =>
        /\ returned.kind = "json"
        /\ returned.status = "error"
        /\ pc = "returned"
        /\ events = <<>>
        /\ save_calls = <<>>

-----------------------------------------------------------------------------
(* What one standard-route stream does when it is served alone, written    *)
(* as a function of the upstream events it received: the reference the     *)
(* concurrent streams are compared with.                                   *)

AloneText(l, delta) ==
    IF Contains(delta, THINK_CLOSE)
    THEN LET remaining == LStripNewlines(SplitAtMarker(delta)[2])
             marked == [l EXCEPT !.inline_reasoning_parts =
                                     Append(@, SplitAtMarker(delta)[1]),
                                 !.in_inline_reasoning = FALSE]
         IN  IF remaining # <<>>
             THEN [marked EXCEPT !.output_parts = Append(@, remaining),
                                 !.full_response_parts = Append(@, remaining),
                                 !.events = Append(@, Content(remaining))]
             ELSE marked
    ELSE IF l.in_inline_reasoning
    THEN LET text_buffer == Join(Append(l.text_buffer_parts, delta))
             verdict == BufferVerdict(text_buffer)
         IN  IF verdict \in {"content", "flush"}
             THEN [l EXCEPT !.in_inline_reasoning = FALSE,
                            !.output_parts = Append(@, text_buffer),
                            !.full_response_parts = Append(@, text_buffer),
                            !.events = Append(@, Content(text_buffer)),
                            !.text_buffer_parts = <<>>,
                            !.current_content_index = 0]
             ELSE IF verdict = "reasoning"
             THEN [l EXCEPT !.text_buffer_parts = Append(@, delta),
                            !.inline_reasoning_parts = Append(@, delta),
                            !.current_content_index = 0]
             ELSE [l EXCEPT !.text_buffer_parts = Append(@, delta),
                            !.current_content_index = 0]
    ELSE [l EXCEPT !.output_parts = Append(@, delta),
                   !.full_response_parts = Append(@, delta),
                   !.events = Append(@, Content(delta)),
                   !.current_content_index = 0]

AloneAnnotation(l, ann) ==
    IF ann.url # NoUrl /\ ann.url \notin l.seen_citation_urls
    THEN [l EXCEPT !.seen_citation_urls = @ \cup {ann.url},
                   !.citations = Append(@,
                       [id |-> Str(Len(@) + 1), content_index |-> ann.content_index,
                        title |-> ann.title, url |-> ann.url])]
    ELSE l

\* The locals while the stream is open, after the events of `received`.
RECURSIVE AloneStreaming(_)
AloneStreaming(received) ==
    IF received = <<>>
    THEN [FreshLocals EXCEPT !.pc = "streaming", !.events = <<Metadata>>]
    ELSE LET l == AloneStreaming(SubSeq(received, 1, Len(received) - 1))
             e == received[Len(received)]
             after == CASE e.kind = "reasoning" ->
                               [l EXCEPT !.reasoning_parts = Append(@, e.delta)]
                        [] e.kind = "text" -> AloneText(l, e.delta)
                        [] OTHER -> AloneAnnotation(l, e.ann)
         IN  [after EXCEPT !.consumed = received]

\* The locals when the stream has ended and the residual buffer, the
\* reasoning and the citations have been sent.
AloneFinalized(received, stage) ==
    LET l == AloneStreaming(received)
        text_buffer == Join(l.text_buffer_parts)
        flushed == IF text_buffer # <<>> /\ l.in_inline_reasoning
                   THEN [l EXCEPT !.output_parts = Append(@, text_buffer),
                                  !.full_response_parts = Append(@, text_buffer),
                                  !.events = Append(@, Content(text_buffer))]
                   ELSE l
        all_reasoning == AllReasoning(l.reasoning_parts, l.inline_reasoning_parts)
        reasoned == IF Strip(all_reasoning) # <<>> /\ CleanReasoning(all_reasoning) # <<>>
                    THEN [flushed EXCEPT !.events =
                             Append(@, Reasoning(WrapReasoning(CleanReasoning(all_reasoning))))]
                    ELSE flushed
        cited == IF l.citations # <<>>
                 THEN [reasoned EXCEPT !.events = Append(@, Citations(l.citations))]
                 ELSE reasoned
    IN  CASE stage = "reasoning" -> [flushed EXCEPT !.pc = stage]
          [] stage = "citations" -> [reasoned EXCEPT !.pc = stage]
          [] OTHER -> [cited EXCEPT !.pc = stage]

\* The message a stream served alone stores (nothing without answer text).
AloneSaved(received) ==
    LET l == AloneFinalized(received, "save")
    IN  IF Join(l.output_parts) = <<>> THEN <<>>
        ELSE <<ContentToSave(AllReasoning(l.reasoning_parts, l.inline_reasoning_parts),
                             Join(l.output_parts))>>

\* The locals l are those of a stream served alone that received the same
\* upstream events and is at the same point; the message id, which the
\* database chooses, is left out of the comparison.
AsServedAlone(l) ==
    LET frames == SelectSeq(l.events, LAMBDA e : e.type # "assistant_message_id")
        same(expected) == [l EXCEPT !.events = frames] = expected
    IN  CASE l.pc = "start" -> l = FreshLocals
          [] l.pc = "streaming" -> same(AloneStreaming(l.consumed))
          [] l.pc = "failed" ->
                same([AloneStreaming(l.consumed) EXCEPT
                         !.pc = "failed", !.events = Append(@, Error(UPSTREAM_ERROR))])
          [] l.pc = "done" ->
                same([AloneFinalized(l.consumed, "done") EXCEPT !.events = Append(@, Done)])
          [] OTHER -> same(AloneFinalized(l.consumed, l.pc))

(* C18: two streaming requests whose upstream chunks are interleaved in    *)
(* any order. At every point each of the two has exactly the locals        *)
(* (classifier state, pending buffer, reasoning accumulators, citation     *)
(* list and seen-set) and the frames of a stream served alone on the same  *)
(* upstream events, and the messages stored are those the two would store  *)
(* alone.                                                                  *)
C18_RequestsIndependent ==
    /\ AsServedAlone(RunningLocals)
    /\ AsServedAlone(suspended)
    /\ LET Stored(l) == IF l.pc \in {"end", "done"} THEN AloneSaved(l.consumed) ELSE <<>>
           contents == [i \in 1..Len(save_calls) |-> save_calls[i].content]
       IN  contents \in {Stored(RunningLocals) \o Stored(suspended),
                         Stored(suspended) \o Stored(RunningLocals)}

\* Both streams are open, have received the same url and have each
\* recorded it.
C18_Witness ==
    /\ pc = "streaming"
    /\ suspended.pc = "streaming"
    /\ Len(consumed) + Len(suspended.consumed) = 3
    /\ seen_citation_urls = {"U1"}
    /\ suspended.seen_citation_urls = {"U1"}
    /\ Len(citations) = 1
    /\ Len(suspended.citations) = 1
    /\ text_buffer_parts # suspended.text_buffer_parts

\* A non-streaming request that returned its success object.
NonStreamingSuccess == returned.kind = "json" /\ returned.status = "success"

(* C19 as stated: every successful non-streaming request has persisted     *)
(* the assistant message exactly once, and has returned one JSON object    *)
(* with the response, the deduplicated citations and the message id,       *)
(* without emitting any SSE event.                                         *)
C19_NonStreamingSavedOnce ==
    NonStreamingSuccess =>
        /\ events = <<>>
        /\ Len(save_calls) = 1
        /\ returned.assistant_message_id # 0

(* C19, amended: a successful non-streaming request has consumed the whole *)
(* response (its text is all the text received, its citations hold every   *)
(* distinct non-empty url received once), has emitted no SSE event, and    *)
(* has persisted the assistant message exactly once, with that text, and   *)
(* returned its id -- except on the standard route when the response has   *)
(* no text, where nothing is persisted and the id is null.                 *)
C19_NonStreamingSavedOnceIfText ==
    NonStreamingSuccess =>
        LET saves == IF route = "standard" /\ returned.response = <<>> THEN 0 ELSE 1
            urls == {ConsumedAnnotations[i].url : i \in 1..Len(ConsumedAnnotations)} \ {NoUrl}
        IN  /\ events = <<>>
            /\ pc = "returned"
            /\ returned.response = Join(ConsumedDeltas("item")) \o Join(ConsumedDeltas("text"))
            /\ {returned.citations[k].url : k \in 1..Len(returned.citations)} = urls
            /\ Len(returned.citations) = Cardinality(urls)
            /\ Len(save_calls) = saves
            /\ \A i \in 1..Len(save_calls) :
                  save_calls[i].ok /\ save_calls[i].content = returned.response
            /\ returned.assistant_message_id # 0 <=> saves = 1

\* Text in two content items and one url cited twice, saved and returned.
C19_Witness ==
    /\ NonStreamingSuccess
    /\ route = "standard"
    /\ Len(ConsumedDeltas("item")) = 2
    /\ Len(returned.response) > Len(D_HereAre)
    /\ Len(ConsumedAnnotations) = 2
    /\ Len(returned.citations) = 1
    /\ Len(save_calls) = 1

\* The main content and the footnote list the extractor has emitted.
MainSent == IF EventsOfType("content") = <<>> THEN <<>> ELSE EventsOfType("content")[1].text

FootnotesSent ==
    IF EventsOfType("footnotes") = <<>> THEN <<>> ELSE EventsOfType("footnotes")[1].citations

Extracted == route = "footnotes" /\ pc = "done"

RoundTripInput == S_SeeNote \o S_RefA \o S_Break \o S_DefA

\* The defined marker of footnote n is referenced inline: it occurs before
\* the definitions and is not followed by digits.
ReferencedInline(buffer, id) ==
    \E k \in 1..Len(WithoutDefinitions(buffer)) :
        /\ IsRefAt(WithoutDefinitions(buffer), k)
        /\ RefId(WithoutDefinitions(buffer), k) = id
        /\ DigitRun(WithoutDefinitions(buffer), RefClose(WithoutDefinitions(buffer), k)) = 0

(* C20: for the input "See note.[^a]\n\n[^a]: Extra detail." the extractor *)
(* emits main content in which the inline reference is replaced by the     *)
(* superscript link to number 1 and the definition text is removed, and    *)
(* the footnote list [{id "a", number 1, content "Extra detail."}]; in     *)
(* general the footnotes are numbered 1, 2, ... in order, no defined       *)
(* marker remains in the main content, and every defined marker that is    *)
(* referenced inline has become the link to its number.                    *)
C20_FootnoteRoundTrip ==
    Extracted =>
        LET buffer == Join(text_buffer_parts)
        IN  /\ buffer = RoundTripInput =>
                  /\ MainSent = S_SeeNote \o SuperscriptLink(1) \o S_Break
                  /\ ~Contains(MainSent, <<"E","x","t","r","a"," ","d","e","t","a","i","l",".">>)
                  /\ FootnotesSent = <<[id |-> <<"a">>, number |-> 1, content |-> <<"E","x","t","r","a"," ","d","e","t","a","i","l",".">>]>>
                  /\ Len(events) = 2
            /\ \A n \in 1..Len(FootnotesSent) :
                  /\ FootnotesSent[n].number = n
                  /\ ~Contains(MainSent, REF_OPEN \o FootnotesSent[n].id \o <<"]">>)
                  /\ ReferencedInline(buffer, FootnotesSent[n].id)
                        => Contains(MainSent, SuperscriptLink(n))

\* The round-trip input itself has been extracted.
C20_Witness ==
    /\ Extracted
    /\ Join(text_buffer_parts) = RoundTripInput
    /\ Contains(MainSent, SuperscriptLink(1))

\* The upstream event consumed by the step, when the step consumes one.
Consumes(kind) ==
    /\ route = "standard"
    /\ Len(consumed') = Len(consumed) + 1
    /\ consumed'[Len(consumed')].kind = kind

Consumed == consumed'[Len(consumed')]

(* C21: a text delta that contains `</think>`, in either classifier state, *)
(* is split at the first marker: the part before it is appended to the     *)
(* inline reasoning accumulator, the state becomes InContent, and the part *)
(* after it, less its leading newlines, is emitted in the same step as one *)
(* Content event and appended to the answer; nothing is emitted if it is   *)
(* empty.                                                                  *)
C21_MarkerSplitsDelta ==
    [][Consumes("text") /\ Contains(Consumed.delta, THINK_CLOSE) =>
         LET at == Find(Consumed.delta, THINK_CLOSE)
             before == SubSeq(Consumed.delta, 1, at - 1)
             after == LStripNewlines(SubSeq(Consumed.delta, at + Len(THINK_CLOSE),
                                            Len(Consumed.delta)))
         IN  /\ inline_reasoning_parts' = Append(inline_reasoning_parts, before)
             /\ reasoning_parts' = reasoning_parts
             /\ ~in_inline_reasoning'
             /\ events' = IF after = <<>> THEN events ELSE Append(events, Content(after))
             /\ output_parts' = IF after = <<>> THEN output_parts
                                ELSE Append(output_parts, after)]_vars

\* A marker has arrived InContent and another InReasoning with only
\* newlines after it: two splits, two reasoning parts, no Content event
\* from the second.
C21_Witness ==
    /\ route = "standard"
    /\ Len(consumed) = 3
    /\ consumed[1].delta = D_HereAre
    /\ consumed[2].delta = D_TwoMarkers
    /\ consumed[3].delta = D_MarkerOnly
    /\ Len(inline_reasoning_parts) = 2
    /\ Len(EventsOfType("content")) = 2

(* C22 as stated: the classifier never withholds more than 500 characters: *)
(* between two upstream events, a classifier still InReasoning holds a     *)
(* pending buffer of at most 500 characters (once the text received in     *)
(* InReasoning exceeds 500 characters it has moved to InContent and        *)
(* emitted the buffer).                                                    *)
C22_NoUnboundedWithholding ==
    route = "standard" /\ in_inline_reasoning =>
        Len(Join(text_buffer_parts)) <= FLUSH_THRESHOLD

(* C23: while the classifier is InContent, a text delta without the marker *)
(* produces, in the step that consumes it, exactly one Content event       *)
(* carrying exactly that delta, placed after every event sent so far, and  *)
(* is appended to the content accumulator; the classifier stays InContent  *)
(* and buffers nothing. Content events are therefore in arrival order.     *)
C23_InContentDeltaEmittedAtOnce ==
    [][Consumes("text") /\ ~in_inline_reasoning
         /\ ~Contains(Consumed.delta, THINK_CLOSE) =>
            /\ events' = events \o <<[type |-> "content", text |-> Consumed.delta,
                                      citations |-> <<>>, id |-> 0]>>
            /\ output_parts' = Append(output_parts, Consumed.delta)
            /\ full_response_parts' = Append(full_response_parts, Consumed.delta)
            /\ text_buffer_parts' = text_buffer_parts
            /\ inline_reasoning_parts' = inline_reasoning_parts
            /\ ~in_inline_reasoning']_vars

\* Two deltas streamed InContent, one Content event each, in order.
C23_Witness ==
    /\ route = "standard"
    /\ pc = "streaming"
    /\ ~in_inline_reasoning
    /\ ConsumedDeltas("text") = <<D_HereAre, D_42, D_Establishing>>
    /\ EventsOfType("content") = <<Content(D_HereAre), Content(D_42), Content(D_Establishing)>>

(* C24: an upstream event tagged as reasoning is appended to the reasoning *)
(* accumulator in whichever classifier state it arrives and changes        *)
(* nothing else: no event is emitted, and the classifier state, the        *)
(* pending buffer, the inline reasoning, the answer text and the citation  *)
(* list stay as they were.                                                 *)
C24_TaggedReasoningOnlyAccumulates ==
    [][Consumes("reasoning") =>
          /\ reasoning_parts' = Append(reasoning_parts, Consumed.delta)
          /\ events' = events
          /\ in_inline_reasoning' = in_inline_reasoning
          /\ text_buffer_parts' = text_buffer_parts
          /\ inline_reasoning_parts' = inline_reasoning_parts
          /\ output_parts' = output_parts
          /\ citations' = citations
          /\ seen_citation_urls' = seen_citation_urls
          /\ save_calls' = save_calls
          /\ pc' = pc]_vars

\* Tagged reasoning has arrived InReasoning and again InContent, after the
\* answer started.
C24_Witness ==
    /\ route = "standard"
    /\ Len(consumed) = 3
    /\ consumed[1].kind = "reasoning"
    /\ consumed[2].delta = D_HereAre
    /\ consumed[3].kind = "reasoning"
    /\ ~in_inline_reasoning
    /\ reasoning_parts = <<D_StepA, D_StepA>>
    /\ EventsOfType("content") = <<Content(D_HereAre)>>

\* The text between the wrapping pair of a Reasoning event's payload.
Wrapped(payload) ==
    SubSeq(payload, Len(THINK_OPEN) + 1, Len(payload) - Len(THINK_CLOSE) - 2)

(* C25 as stated: at most one Reasoning event is emitted per stream; it is *)
(* emitted only after the upstream stream is exhausted and only if the     *)
(* accumulated reasoning, its literal tags removed and trimmed, is not     *)
(* empty; and its payload holds no literal <think> or </think> other than  *)
(* the single wrapping pair.                                               *)
C25_OneCleanReasoningEvent ==
    route = "standard" =>
        /\ Len(EventsOfType("reasoning")) <= 1
        /\ \A i \in IndexesOfType({"reasoning"}) :
              /\ pc \notin {"start", "streaming"}
              /\ CleanReasoning(AllReasoning(reasoning_parts, inline_reasoning_parts)) # <<>>
              /\ MatchAt(events[i].text, 1, THINK_OPEN)
              /\ MatchAt(events[i].text, Len(events[i].text) - Len(THINK_CLOSE) - 1,
                         THINK_CLOSE)
              /\ ~Contains(Wrapped(events[i].text), THINK_OPEN)
              /\ ~Contains(Wrapped(events[i].text), THINK_CLOSE)

\* Place of an event type in the order of a stream that was exhausted.
FinalizingRank(type) ==
    CASE type = "metadata" -> 0
      [] type = "content" -> 1
      [] type = "reasoning" -> 2
      [] type = "citations" -> 3
      [] type = "assistant_message_id" -> 4
      [] type = "done" -> 5
      [] OTHER -> 6

(* C26: finalizing order. The events of a stream come in the order         *)
(* Content (the residual flush last of them), Reasoning, Citations,        *)
(* AssistantMessageId, Done, each of the last four at most once and none   *)
(* of them before the upstream stream is exhausted; AssistantMessageId is  *)
(* emitted only when save_message has returned, and carries the id of the  *)
(* message that call stored.                                               *)
C26_FinalizingOrder ==
    /\ \A i, j \in 1..Len(events) :
          i < j => FinalizingRank(events[i].type) <= FinalizingRank(events[j].type)
    /\ \A t \in {"reasoning", "citations", "assistant_message_id", "done"} :
          /\ Len(EventsOfType(t)) <= 1
          /\ EventsOfType(t) # <<>> => pc \notin {"start", "streaming"}
    /\ \A i \in IndexesOfType({"assistant_message_id"}) :
          /\ Len(save_calls) = 1
          /\ save_calls[1].ok
          /\ events[i].id = 2
    /\ pc \in {"end", "done"} /\ save_calls # <<>> /\ save_calls[1].ok =>
          EventsOfType("assistant_message_id") # <<>>

\* A stream that ended with text pending: residual flush, Reasoning,
\* Citations, AssistantMessageId and Done, in that order.
C26_Witness ==
    /\ route = "standard"
    /\ in_inline_reasoning = TRUE
    /\ [i \in 1..Len(events) |-> events[i].type] =
          <<"metadata", "content", "reasoning", "citations", "assistant_message_id", "done">>
    /\ events[2].text = D_42

\* How often a call was made for the request.
CallCount(name) == Cardinality({i \in 1..Len(handler_calls) : handler_calls[i] = name})

CallIndex(name) == CHOOSE i \in 1..Len(handler_calls) : handler_calls[i] = name

\* The handler has got past the request stage.
Handled == pc # "request"

SplitOffset(b) ==
    LET marks == {k \in 0..(Len(b) - 2) :
                     b[k + 1] \in TerminalPunctuation /\ b[k + 2] \in Whitespace}
    IN  IF marks = {} THEN 0 - 1 ELSE CHOOSE k \in marks : \A m \in marks : k <= m

\* The units split off a buffer: each at the first such mark, while its
\* offset is 10 or more, the unit and the rest trimmed.
RECURSIVE UnitsOf(_)
UnitsOf(b) ==
    IF SplitOffset(b) >= 10
    THEN <<Strip(SubSeq(b, 1, SplitOffset(b) + 1))>>
         \o UnitsOf(Strip(SubSeq(b, SplitOffset(b) + 2, Len(b))))
    ELSE <<>>

RECURSIVE RestOf(_)
RestOf(b) ==
    IF SplitOffset(b) >= 10 THEN RestOf(Strip(SubSeq(b, SplitOffset(b) + 2, Len(b)))) ELSE b

(* C28: in the streaming TTS loop, a step that takes a chunk splits units  *)
(* off the buffer only at a terminal punctuation mark (. ! ?) followed by  *)
(* whitespace at an offset of at least 10, the first such mark of the      *)
(* buffer each time; has_complete_sentence and extract_sentence agree on   *)
(* that point, and the unit and the remainder are trimmed. A buffer whose  *)
(* first mark lies below offset 10, or that has none, is left whole.       *)
C28_SplitAtBoundaryFromTen ==
    [][route = "tts" /\ Len(consumed') = Len(consumed) + 1 =>
         LET b == sentence_buffer \o consumed'[Len(consumed')].delta
             units == SubSeq(dispatched', Len(dispatched) + 1, Len(dispatched'))
         IN  /\ [i \in 1..Len(units) |-> units[i].text] = UnitsOf(b)
             /\ sentence_buffer' = RestOf(b)
             /\ has_complete_sentence(b) <=> SplitOffset(b) >= 10
             /\ has_complete_sentence(b) =>
                   /\ extract_sentence(b)[1] = Strip(SubSeq(b, 1, SplitOffset(b) + 1))
                   /\ extract_sentence(b)[2] = Strip(extract_sentence(b)[2])
                   /\ units # <<>>
             /\ \A i \in 1..Len(units) :
                   /\ units[i].text = Strip(units[i].text)
                   /\ units[i].text[Len(units[i].text)] \in TerminalPunctuation]_vars

\* A buffer with a line break before its first boundary has been split
\* there, after an earlier unit.
C28_Witness ==
    /\ route = "tts"
    /\ pc = "streaming"
    /\ Len(consumed) = 2
    /\ consumed[1].delta = C_Doctor
    /\ consumed[2].delta = C_Lines
    /\ Len(dispatched) = 2
    /\ dispatched[2].text = Strip(C_Lines)
    /\ sentence_buffer = <<>>

\* The cleaned-text stream ends in this step.
StreamEnds == route = "tts" /\ pc = "streaming" /\ pc' = "done"

(* C29: when the cleaned-text stream ends, text still in the sentence      *)
(* buffer that is not blank is sent to TTS, trimmed, as one final unit,    *)
(* whether or not it holds a boundary, and a blank buffer sends nothing;   *)
(* a stream from which no unit was split off yields exactly one unit, the  *)
(* whole text received (none if that text is blank).                       *)
C29_RemainderIsFinalUnit ==
    [][StreamEnds =>
         LET final == Strip(sentence_buffer)
             whole == Strip(Join(ConsumedDeltas("text")))
             Texts(units) == [i \in 1..Len(units) |-> units[i].text]
         IN  /\ Texts(dispatched') =
                   Texts(dispatched) \o (IF final # <<>> THEN <<final>> ELSE <<>>)
             /\ dispatched = <<>> =>
                   Texts(dispatched') = IF whole # <<>> THEN <<whole>> ELSE <<>>]_vars

\* Two chunks, boundaries in both, nothing split off: the stream ended and
\* the whole text went out as the one unit.
C29_Witness ==
    /\ route = "tts"
    /\ pc = "done"
    /\ ConsumedDeltas("text") = <<C_Dr, C_He>>
    /\ Len(dispatched) = 1
    /\ dispatched[1].text = Strip(C_Dr \o C_He)

\* The units a sequence of chunks has split off, and the buffer it leaves.
RECURSIVE UnitsOfChunks(_, _)
UnitsOfChunks(chunks, buffer) ==
    IF chunks = <<>> THEN <<>>
    ELSE UnitsOf(buffer \o Head(chunks))
         \o UnitsOfChunks(Tail(chunks), RestOf(buffer \o Head(chunks)))

RECURSIVE RestOfChunks(_, _)
RestOfChunks(chunks, buffer) ==
    IF chunks = <<>> THEN buffer
    ELSE RestOfChunks(Tail(chunks), RestOf(buffer \o Head(chunks)))

TerminalFrames == IndexesOfType({"done", "error"})

(* C30: in /speak-stream a failed TTS call does not end the stream: the    *)
(* units dispatched are those the chunks received give rise to, whichever  *)
(* calls failed, and no error frame follows a failure. A stream that has   *)
(* ended carries exactly one terminal frame, its last: done with the count *)
(* of the units dispatched, failed ones included, or error; a stream still *)
(* running carries none.                                                   *)
C30_TtsFailureDoesNotEndStream ==
    route = "tts" =>
        LET chunks == ConsumedDeltas("text")
            final == Strip(RestOfChunks(chunks, <<>>))
            expected == UnitsOfChunks(chunks, <<>>)
                        \o (IF pc = "done" /\ final # <<>> THEN <<final>> ELSE <<>>)
        IN  /\ [i \in 1..Len(dispatched) |-> dispatched[i].text] = expected
            /\ Len(EventsOfType("audio")) =
                  Cardinality({i \in 1..Len(dispatched) : dispatched[i].ok})
            /\ IF pc \in {"done", "failed"}
               THEN TerminalFrames = {Len(events)}
               ELSE TerminalFrames = {}
            /\ pc = "done" => events[Len(events)] = DoneSentences(Len(dispatched))
            /\ pc = "failed" => events = <<Error(NO_TEXT_ERROR)>> /\ dispatched = <<>>

\* Both sentences of one chunk were sent although the first call failed,
\* and so was the text left at the end; done counts three.
C30_Witness ==
    /\ route = "tts"
    /\ pc = "done"
    /\ ConsumedDeltas("text") = <<C_Two>>
    /\ Len(dispatched) = 3
    /\ ~dispatched[1].ok
    /\ dispatched[2].ok
    /\ dispatched[3].ok
    /\ Len(EventsOfType("audio")) = 2
    /\ events[Len(events)] = DoneSentences(3)

\* How often the text p occurs in s.
Occurrences(s, p) == Cardinality({i \in 1..Len(s) : MatchAt(s, i, p)})

Marker(id) == REF_OPEN \o id \o <<"]">>

DefinedIds == {FootnotesSent[n].id : n \in 1..Len(FootnotesSent)}

(* C31: footnotes are numbered 1, 2, 3, ... in the order their definitions *)
(* appear in the buffer, whatever their ids (definitions [^b] then [^a]    *)
(* give b = 1 and a = 2, and a reference to a is the link to 2); an inline *)
(* reference whose id has no definition stays in the main content as it    *)
(* was.                                                                    *)
C31_NumberedInOrderOfAppearance ==
    Extracted =>
        LET buffer == Join(text_buffer_parts)
            at == [n \in 1..Len(FootnotesSent) |->
                      Find(buffer, <<"\n">> \o Marker(FootnotesSent[n].id) \o <<":">>)]
        IN  /\ \A n \in 1..Len(FootnotesSent) : FootnotesSent[n].number = n
            /\ \A m, n \in 1..Len(FootnotesSent) :
                  m < n /\ at[m] # 0 /\ at[n] # 0 => at[m] < at[n]
            /\ buffer = S_RefA \o S_DefB \o S_Break \o S_DefA =>
                  /\ [n \in 1..2 |-> FootnotesSent[n].id] = <<<<"b">>, <<"a">>>>
                  /\ MainSent = SuperscriptLink(2) \o <<"\n">>
            /\ \A id \in {<<"a">>, <<"b">>} \ DefinedIds :
                  /\ ReferencedInline(buffer, id) => Contains(MainSent, Marker(id))
                  /\ Occurrences(MainSent, Marker(id)) <=
                        Occurrences(WithoutDefinitions(buffer), Marker(id))
            /\ DefinedIds = {} /\ ~Contains(buffer, S_Digits) => MainSent = buffer

\* Definitions [^b] then [^a] with a reference to a, extracted.
C31_Witness ==
    /\ Extracted
    /\ Join(text_buffer_parts) = S_RefA \o S_DefB \o S_Break \o S_DefA
    /\ Len(FootnotesSent) = 2
    /\ FootnotesSent[1].id = <<"b">>

\* A reference without a definition next to a defined one, extracted.
C31_WitnessUndefined ==
    /\ Extracted
    /\ Join(text_buffer_parts) = S_RefB \o S_RefA \o S_Break \o S_DefA
    /\ MainSent = S_RefB \o SuperscriptLink(1) \o S_Break

\* The history before and after the step that limits it.
Limiting == pc = "history" /\ pc' = "request"

\* The claim's four parts for a history h, the history sent and the limit.
HistoryLimited(h, sent, limit) ==
    LET kept == h # <<>> /\ h[1].role = "system"
        recent == IF kept /\ sent # <<>> THEN Tail(sent) ELSE sent
    IN  /\ Len(h) > limit =>
              /\ Len(sent) <= limit
              /\ kept => sent # <<>> /\ sent[1] = h[1]
              /\ Len(recent) <= Len(h)
              /\ recent = SubSeq(h, Len(h) - Len(recent) + 1, Len(h))
        /\ Len(h) <= limit => sent = h

(* C32: a history longer than MAX_CONVERSATION_MESSAGES is sent upstream   *)
(* with at most MAX_CONVERSATION_MESSAGES entries, its leading system      *)
(* message kept at index 0 and the rest the most recent messages in their  *)
(* order; a history at or under the limit is sent unchanged.               *)
C32_HistoryLimited ==
    [][Limiting => HistoryLimited(request.conversation_history,
                                  request'.conversation_history,
                                  request.MAX_CONVERSATION_MESSAGES)]_vars

\* The same with a limit of two or more.
C32_HistoryLimitedFromTwo ==
    [][Limiting /\ request.MAX_CONVERSATION_MESSAGES >= 2 =>
          HistoryLimited(request.conversation_history,
                         request'.conversation_history,
                         request.MAX_CONVERSATION_MESSAGES)]_vars

\* In-order concatenation of the text of every Reasoning event sent.
EmittedReasoning ==
    LET r == EventsOfType("reasoning") IN Join([i \in 1..Len(r) |-> r[i].text])

\* The `<think>` block of a persisted content: up to its closing tag.
ThinkBlock(content) ==
    IF MatchAt(content, 1, THINK_OPEN) /\ Contains(content, THINK_CLOSE)
    THEN SubSeq(content, 1, Find(content, THINK_CLOSE) - 1)
    ELSE <<>>

\* The text deltas that arrived once and are part of no other upstream
\* delta, so that their characters are told apart from all others.
TracedDeltas ==
    {consumed[i].delta : i \in {i \in 1..Len(consumed) :
        /\ consumed[i].kind = "text"
        /\ consumed[i].delta # <<>>
        /\ \A j \in 1..Len(consumed) :
              j # i /\ consumed[j].kind \in {"text", "reasoning"}
                 => ~Contains(consumed[j].delta, consumed[i].delta)}}

(* C33 as stated: on the standard streaming route no text delta is both    *)
(* emitted in a Content event and included in the Reasoning event or in    *)
(* the <think> block of the persisted content of the same stream.          *)
C33_ContentReasoningDisjoint ==
    route = "standard" =>
        \A d \in TracedDeltas :
            Contains(EmittedContent, d) =>
                /\ ~Contains(EmittedReasoning, d)
                /\ \A i \in 1..Len(save_calls) :
                      ~Contains(ThinkBlock(save_calls[i].content), d)

EndsWithError == events # <<>> /\ events[Len(events)].type = "error"

Persisted == \E i \in 1..Len(save_calls) : save_calls[i].ok

(* C34: on both streaming routes, when the last event sent is an Error, no *)
(* assistant message has been persisted and no AssistantMessageId event    *)
(* was sent on the stream; and an AssistantMessageId event is directly     *)
(* followed by Done, which a completed stream has sent.                    *)
C34_ErrorMeansNothingPersisted ==
    /\ EndsWithError => ~Persisted /\ IndexesOfType({"assistant_message_id"}) = {}
    /\ \A i \in IndexesOfType({"assistant_message_id"}) :
          /\ i < Len(events) => events[i + 1] = Done
          /\ Completed => i < Len(events)

\* A document stream whose save raised: it ends with the error frame.
C34_Witness ==
    /\ route = "document"
    /\ Completed
    /\ EndsWithError
    /\ EmittedContent # <<>>
    /\ SaveRaised

\* A stream that sent the id of the saved message and then Done.
C34_WitnessSaved ==
    /\ Completed
    /\ Persisted
    /\ \E i \in IndexesOfType({"assistant_message_id"}) : events[i + 1] = Done

(* C35: on the standard streaming route the classifier starts in           *)
(* InReasoning; once it is InContent no step brings it back to InReasoning *)
(* and no step appends to the pending buffer, whatever the upstream sends. *)
C35_ClassifierMonotone ==
    /\ in_inline_reasoning = TRUE
    /\ [][~in_inline_reasoning =>
             /\ ~in_inline_reasoning'
             /\ text_buffer_parts' = text_buffer_parts]_vars

\* A text delta arrived after the classifier had moved to InContent with
\* text still pending from before a marker.
C35_Witness ==
    /\ route = "standard"
    /\ ~in_inline_reasoning
    /\ text_buffer_parts # <<>>
    /\ Len(ConsumedDeltas("text")) = 3
    /\ ConsumedDeltas("text")[3] = D_Establishing

\* What the claim compares of a citation list: id, url and title, in order.
IdUrlTitle(list) ==
    [k \in 1..Len(list) |->
        [id |-> list[k].id, url |-> list[k].url, title |-> list[k].title]]

\* The response objects that hold the annotations anns in reading order:
\* each annotation in the item of the one before it, in a new item of the
\* same message, or in the first item of a new message.
RECURSIVE Layouts(_)
Layouts(anns) ==
    IF anns = <<>> THEN {<<>>}
    ELSE LET message == UpstreamEvent("message", <<>>, NoAnnotation)
             item == UpstreamEvent("item", D_42, NoAnnotation)
             last == UpstreamEvent("annotation", <<>>, anns[Len(anns)])
             openings == IF Len(anns) = 1 THEN {<<message, item>>}
                         ELSE {<<>>, <<item>>, <<message, item>>}
         IN  {before \o opening \o <<last>> :
                 before \in Layouts(SubSeq(anns, 1, Len(anns) - 1)),
                 opening \in openings}

(* C36: for the annotations received so far, in their order, the list      *)
(* recorded by the streaming loop (dedup during collection), the list the  *)
(* deployment revision builds at the end of the stream and the list the    *)
(* non-streaming path builds from a response object holding the same       *)
(* annotations have the same ids, urls and titles in the same order, and   *)
(* the Citations event carries that list.                                  *)
C36_DedupPathsAgree ==
    route = "standard" =>
        LET anns == ConsumedAnnotations
        IN  /\ IdUrlTitle(citations) = IdUrlTitle(DedupAtEndOfStream(anns))
            /\ \A output \in Layouts(anns) :
                  IdUrlTitle(DeduplicateCitations(RawCitations(output)))
                      = IdUrlTitle(citations)
            /\ \A i \in IndexesOfType({"citations"}) :
                  IdUrlTitle(events[i].citations) = IdUrlTitle(DedupAtEndOfStream(anns))

\* Three annotations, a repeated url under another title and one without
\* url among them, and the batch was sent.
C36_Witness ==
    /\ route = "standard"
    /\ pc = "done"
    /\ Len(ConsumedAnnotations) = 3
    /\ ConsumedAnnotations[1].url = ConsumedAnnotations[3].url
    /\ ConsumedAnnotations[1].title # ConsumedAnnotations[3].title
    /\ ConsumedAnnotations[2].url = NoUrl
    /\ Len(citations) = 1
    /\ Cardinality(Layouts(ConsumedAnnotations)) = 9

\* The texts handed to deepgram_stream_tts, in order.
UnitsSent == [i \in 1..Len(dispatched) |-> dispatched[i].text]

\* units are consecutive pieces of the text with only whitespace before,
\* between and after them.
RECURSIVE Reproduces(_, _)
Reproduces(units, cleaned) ==
    LET rest == LStrip(cleaned)
    IN  IF units = <<>> THEN rest = <<>>
        ELSE /\ units[1] # <<>>
             /\ MatchAt(rest, 1, units[1])
             /\ Reproduces(Tail(units),
                           SubSeq(rest, Len(units[1]) + 1, Len(rest)))

(* C37 as stated: when a /speak-stream run is over, the units sent to TTS, *)
(* in order, are the cleaned text (the chunks received, joined) cut into   *)
(* pieces with nothing but whitespace dropped between the pieces: no       *)
(* character is lost, duplicated or reordered and no two words that        *)
(* whitespace separates in the cleaned text are adjacent in a unit.        *)
C37_UnitsReproduceCleanedText ==
    route = "tts" /\ pc = "done" =>
        Reproduces(UnitsSent, Join(ConsumedDeltas("text")))

\* The inner loop started on buffer exits within k iterations, each of
\* which yields a sentence that is not empty and a strictly shorter buffer;
\* it runs n times and leaves the buffer final.
RECURSIVE LoopExits(_, _, _, _)
LoopExits(buffer, k, n, final) ==
    IF has_complete_sentence(buffer)
    THEN LET taken == extract_sentence(buffer)
         IN  /\ k > 0
             /\ Strip(taken[1]) # <<>>
             /\ Len(taken[2]) < Len(buffer)
             /\ LoopExits(taken[2], k - 1, n - 1, final)
    ELSE n = 0 /\ buffer = final

(* C38: the inner loop `while has_complete_sentence(buffer)` of a step that *)
(* takes a chunk terminates: every iteration yields a sentence that is not *)
(* empty and leaves a strictly shorter buffer, so the loop has exited      *)
(* after at most as many iterations as the buffer has characters, and the  *)
(* buffer the step leaves holds no complete sentence.                      *)
C38_SentenceLoopTerminates ==
    [][route = "tts" /\ Len(consumed') = Len(consumed) + 1 =>
         LET b == sentence_buffer \o consumed'[Len(consumed')].delta
         IN  /\ LoopExits(b, Len(b), Len(dispatched') - Len(dispatched),
                          sentence_buffer')
             /\ ~has_complete_sentence(sentence_buffer')]_vars

\* A step in which the loop ran twice and left text in the buffer.
C38_Witness ==
    /\ route = "tts"
    /\ pc = "streaming"
    /\ ConsumedDeltas("text") = <<C_Five, C_Two>>
    /\ Len(dispatched) = 2
    /\ sentence_buffer = <<"B", "y", "e">>

\* The persisted content has the form <think>\n{reasoning}\n</think>\n\n
\* followed by the answer.
InThinkForm(content, answer) ==
    LET head == Len(content) - Len(answer)
    IN  /\ head >= Len(WrapReasoning(<<>>))
        /\ SubSeq(content, head + 1, Len(content)) = answer
        /\ MatchAt(content, 1, THINK_OPEN \o <<"\n">>)
        /\ MatchAt(content, head - Len(THINK_CLOSE) - 2,
                   <<"\n">> \o THINK_CLOSE \o <<"\n", "\n">>)

(* C39 as stated: for every content the standard streaming route persists  *)
(* in the form <think>\n{reasoning}\n</think>\n\n{answer},                  *)
(* _strip_think_tags returns exactly the trimmed answer.                   *)
C39_StripReturnsAnswer ==
    route = "standard" =>
        \A i \in 1..Len(save_calls) :
            save_calls[i].ok /\ InThinkForm(save_calls[i].content, Join(output_parts)) =>
                strip_think_tags(save_calls[i].content) = Strip(Join(output_parts))

\* The same for the contents whose reasoning holds no closing tag in any
\* case and whose answer holds no opening tag.
C39_StripReturnsAnswerWithoutTags ==
    route = "standard" =>
        \A i \in 1..Len(save_calls) :
            LET content == save_calls[i].content
                answer == Join(output_parts)
                reasoning == SubSeq(content, 1,
                                    Len(content) - Len(answer) - Len(THINK_CLOSE) - 2)
            IN  /\ save_calls[i].ok
                /\ InThinkForm(content, answer)
                /\ ~Contains(LowerText(reasoning), THINK_CLOSE)
                /\ ~Contains(LowerText(answer), THINK_OPEN)
                => strip_think_tags(content) = Strip(answer)

====
